---- MODULE Spec2Model ----
(***************************************************************************)
(* A model of the GeNN model registry (NNmodel: add calls, finalize,       *)
(* setPopulationSums) and of the host-side sparse connectivity utilities   *)
(* of sparseUtils.h (dense to compressed-row conversion, post-to-pre remap *)
(* and synapse-dynamics remap of the ragged representation).               *)
(*                                                                         *)
(* C arrays are modelled as sequences; element i of a C array a is         *)
(* At(a, i), i.e. a[i + 1].                                                *)
(***************************************************************************)
EXTENDS Integers, Sequences, FiniteSets, TLC

\* ------------------------------------------------------------------------
\* Bounds
\* ------------------------------------------------------------------------
\* matrices of the sparse utilities
MaxPreN == 2
MaxPostN == 2
MaxRowLen == 2
MaxColLen == 2
MaxCells == 4

\* the model registry
MaxNeuronGroups == 2
MaxEntities == 3

\* ------------------------------------------------------------------------
\* Generic helpers for C arrays
\* ------------------------------------------------------------------------
At(a, i) == a[i + 1]

Put(a, i, v) == [a EXCEPT ![i + 1] = v]

Abs(x) == IF x < 0 THEN -x ELSE x

RECURSIVE SumSeq(_)
SumSeq(s) == IF s = <<>> THEN 0 ELSE Head(s) + SumSeq(Tail(s))

\* ------------------------------------------------------------------------
\* Dense -> compressed-row conversion (sparseUtils.h)
\* ------------------------------------------------------------------------
\* Weights are integers in units of the near-zero threshold, so a weight of
\* asGoodAsZero is exactly on the threshold and does not exceed it.
asGoodAsZero == 1

DenseVals == {-2, 0, 1, 2}

\* the test of line 88 / line 117: a signed comparison
ExceedsSignFlipped(g) == g > -asGoodAsZero

Exceeds(g) == g > asGoodAsZero

\* countEntriesAbove: counts by magnitude
RECURSIVE countEntriesAbove(_, _, _)
countEntriesAbove(Array, sz, includeAbove) ==
    IF sz = 0 THEN 0
    ELSE countEntriesAbove(Array, sz - 1, includeAbove)
         + (IF Abs(At(Array, sz - 1)) > includeAbove THEN 1 ELSE 0)

\* the inner loop over post of one row; st = [indInG, ind, wuvar, synapse]
RECURSIVE scanRow(_, _, _, _, _)
scanRow(tmp_gRNPN, nPost, pre, post, st) ==
    IF post >= nPost THEN st
    ELSE LET g == At(tmp_gRNPN, pre * nPost + post)
             st1 == IF Exceeds(g)
                    THEN [st EXCEPT !.ind = Append(@, post),
                                    !.wuvar = Append(@, g),
                                    !.synapse = @ + 1]
                    ELSE st
         IN scanRow(tmp_gRNPN, nPost, pre, post + 1, st1)

\* the outer loop over pre; writes indInG[pre + 1] after each row
RECURSIVE scanRows(_, _, _, _, _)
scanRows(tmp_gRNPN, nPre, nPost, pre, st) ==
    IF pre >= nPre THEN st
    ELSE LET st1 == scanRow(tmp_gRNPN, nPost, pre, 0, st)
             st2 == [st1 EXCEPT !.indInG = Append(@, st1.synapse)]
         IN scanRows(tmp_gRNPN, nPre, nPost, pre + 1, st2)

setSparseConnectivityFromDense(nPre, nPost, tmp_gRNPN) ==
    scanRows(tmp_gRNPN, nPre, nPost, 0,
             [indInG |-> <<0>>, ind |-> <<>>, wuvar |-> <<>>, synapse |-> 0])

\* createSparseConnectivityFromDense up to the self test: the count by
\* magnitude goes to connN, then the same two loops run
createSparseConnectivityFromDense(nPre, nPost, tmp_gRNPN) ==
    [connN |-> countEntriesAbove(tmp_gRNPN, nPre * nPost, asGoodAsZero),
     csr |-> setSparseConnectivityFromDense(nPre, nPost, tmp_gRNPN)]

\* getSparseVar: the weight stored for (x, y), 0 when the pair is not stored
RECURSIVE lookupSyn(_, _, _, _, _)
lookupSyn(wu, ind, syn, endSynapse, y) ==
    IF syn >= endSynapse THEN 0
    ELSE IF At(ind, syn) = y THEN At(wu, syn)
    ELSE lookupSyn(wu, ind, syn + 1, endSynapse, y)

getSparseVar(wu, sparseStruct, x, y) ==
    lookupSyn(wu, sparseStruct.ind, At(sparseStruct.indInG, x),
              At(sparseStruct.indInG, x + 1), y)

\* getG: calls getSparseVar, drops what it returns and ends without a return
\* statement, so the caller reads an indeterminate value; the set of the
\* values a call may yield
getG(wu, sparseStruct, x, y) == DenseVals \cup {0}

\* the (randX, randY) pairs the ten draws of the self test may produce
SampleSets(nPre, nPost) ==
    (SUBSET ((0..(nPre - 1)) \X (0..(nPost - 1)))) \ {{}}

\* the values of (fails > 0) the self test may end with for these samples
selfTestOutcomes(wu, sparseStruct, nPost, tmp_gRNPN, samples) ==
    {failed \in BOOLEAN :
        IF failed
        THEN \E xy \in samples :
                 \E sparseResult \in getG(wu, sparseStruct, xy[1], xy[2]) :
                     Abs(At(tmp_gRNPN, xy[1] * nPost + xy[2]) - sparseResult) > asGoodAsZero
        ELSE \A xy \in samples :
                 \E sparseResult \in getG(wu, sparseStruct, xy[1], xy[2]) :
                     Abs(At(tmp_gRNPN, xy[1] * nPost + xy[2]) - sparseResult) <= asGoodAsZero}

\* The dense matrix a compressed-row structure stands for: the stored weight
\* at each stored (row, column), zero elsewhere.
DenseOf(nPre, nPost, csr) ==
    [k \in 1..(nPre * nPost) |->
        getSparseVar(csr.wuvar, csr, (k - 1) \div nPost, (k - 1) % nPost)]

\* ------------------------------------------------------------------------
\* Ragged representation: post-to-pre remap and synapse-dynamics remap
\* ------------------------------------------------------------------------
\* marks an array element that holds no defined value (padding of ind, a
\* remap slot nothing was written to)
Undef == -1

\* what colLength may hold before createPosttoPreArray is called
StaleColLength == {0, 1}

\* std::fill_n(C->colLength, postN, 0)
zeroColLength(colLength, nPost) == [t \in 1..nPost |-> 0]

\* index of synapse j of row i in the row-major matrix
rowMajor(R, i, j) == (i * R.maxRowLength) + j

\* the value createPreIndices stores for synapse j of row i
synRemapEntryCompact(R, i, j) == SumSeq(SubSeq(R.rowLength, 1, i)) + j

synRemapEntry(R, i, j) == (i * R.maxRowLength) + j

\* the inner loop of createPosttoPreArray over the synapses of row i;
\* st = [colLength, remap, writes, oob]: writes lists, in program order, the
\* (slot, row-major index) of every store to remap, oob says that a store
\* fell outside remap[0 .. postN * maxColLength)
RECURSIVE postToPreRow(_, _, _, _)
postToPreRow(R, i, j, st) ==
    IF j >= At(R.rowLength, i) THEN st
    ELSE LET rowMajorIndex == rowMajor(R, i, j)
             postIndex == At(R.ind, rowMajorIndex)
             colMajorIndex == (postIndex * R.maxColLength) + At(st.colLength, postIndex)
             st1 == [st EXCEPT !.colLength = Put(@, postIndex, At(@, postIndex) + 1),
                               !.writes = Append(@, <<colMajorIndex, rowMajorIndex>>)]
             st2 == IF colMajorIndex < Len(st.remap)
                    THEN [st1 EXCEPT !.remap = Put(@, colMajorIndex, rowMajorIndex)]
                    ELSE [st1 EXCEPT !.oob = TRUE]
         IN postToPreRow(R, i, j + 1, st2)

RECURSIVE postToPreRows(_, _, _, _)
postToPreRows(R, nPre, i, st) ==
    IF i >= nPre THEN st
    ELSE postToPreRows(R, nPre, i + 1, postToPreRow(R, i, 0, st))

createPosttoPreArray(nPre, nPost, R) ==
    postToPreRows(R, nPre, 0,
                  [colLength |-> zeroColLength(R.colLength, nPost),
                   remap |-> R.remap, writes |-> <<>>, oob |-> FALSE])

\* createPreIndices: synRemap[0] is the running count, the entries follow
RECURSIVE preIndicesRow(_, _, _, _)
preIndicesRow(R, i, j, synRemap) ==
    IF j >= At(R.rowLength, i) THEN synRemap
    ELSE preIndicesRow(R, i, j + 1,
                       Append(Put(synRemap, 0, At(synRemap, 0) + 1), synRemapEntry(R, i, j)))

RECURSIVE preIndicesRows(_, _, _, _)
preIndicesRows(R, nPre, i, synRemap) ==
    IF i >= nPre THEN synRemap
    ELSE preIndicesRows(R, nPre, i + 1, preIndicesRow(R, i, 0, synRemap))

createPreIndices(nPre, R) == preIndicesRows(R, nPre, 0, <<0>>)


\* ------------------------------------------------------------------------
\* Model registry (NNmodel): inputs
\* ------------------------------------------------------------------------
\* Names are numbers: n < m stands for the string comparison by which
\* std::map orders its keys.
NeuronNames == 1..MaxNeuronGroups

SynapseNames == {1, 2}

CurrentSourceNames == {1}

Sizes == {1, 3}

HostIDs == {0, 1}

\* the rank MPI_Comm_rank reports for this process
mpiHostID == 0

\* weight update models by the code strings they define
WUModels == {"static", "learnPost", "dynamics", "learnPostDynamics"}

learnPostCodeEmpty(wu) == wu \notin {"learnPost", "learnPostDynamics"}

synapseDynamicsCodeEmpty(wu) == wu \notin {"dynamics", "learnPostDynamics"}

\* weight update models with spike-like event code: "event" and
\* "eventSupport" test the same condition on their parameter, "eventSupport"
\* has simulation code and support code for it, "eventEGP" tests an extra
\* global parameter
EventWUModels == {"event", "eventSupport", "eventEGP"}

eventCodeEmpty(wu) == wu \notin EventWUModels

simCodeEmpty(wu) == wu \in {"event", "eventEGP"}

simSupportCodeEmpty(wu) == wu # "eventSupport"

eventThresholdConditionCode(wu) ==
    IF wu = "eventEGP" THEN "$(V_pre) > $(k)" ELSE "$(V_pre) > $(Epre)"

\* getParamNames: whether the model has the parameter Epre
hasParam(wu) == wu \in {"event", "eventSupport"}

\* getExtraGlobalParams: the names the model declares, in declaration order
\* (numbers, ordered as the strings they stand for)
extraGlobalParams(wu) ==
    IF wu = "eventEGP" THEN <<2, 1>>
    ELSE IF wu = "learnPostDynamics" THEN <<1>>
    ELSE <<>>

\* the values of the parameter Epre
ParamValues == {1, 2}

\* SynapseMatrixType: a connectivity and a weight flag
MatrixType(connectivity, weight) == [connectivity |-> connectivity, weight |-> weight]

DENSE_GLOBALG == MatrixType("DENSE", "GLOBAL")

DENSE_INDIVIDUALG == MatrixType("DENSE", "INDIVIDUAL")

SPARSE_GLOBALG == MatrixType("SPARSE", "GLOBAL")

SPARSE_INDIVIDUALG == MatrixType("SPARSE", "INDIVIDUAL")

RAGGED_GLOBALG == MatrixType("RAGGED", "GLOBAL")

RAGGED_INDIVIDUALG == MatrixType("RAGGED", "INDIVIDUAL")

BITMASK_GLOBALG == MatrixType("BITMASK", "GLOBAL")

SynapseMatrixTypes ==
    {DENSE_GLOBALG, DENSE_INDIVIDUALG, SPARSE_GLOBALG, SPARSE_INDIVIDUALG,
     RAGGED_GLOBALG, RAGGED_INDIVIDUALG, BITMASK_GLOBALG}

\* where a variable is initialised: the VarInit::HOST flag of its mode
VarInitPlaces == {"HOST", "DEVICE"}

\* how the connectivity and the weight update variables of a synapse group
\* are set up: the matrix type, whether the connectivity initialiser has
\* row build code, and the modes of the connectivity and of each variable
SynapseInit(mtype, rowBuildCodeEmpty, connMode, wuVarModes) ==
    [matrixType |-> mtype, rowBuildCodeEmpty |-> rowBuildCodeEmpty,
     sparseConnectivityVarMode |-> connMode, wuVarModes |-> wuVarModes,
     weightParamValues |-> <<1>>]

\* the same set-up with other weight update parameter values
WithWeightParamValues(init, values) == [init EXCEPT !.weightParamValues = values]

\* uninitialisedConnectivity() and one variable initialised on the host
UninitialisedInit == SynapseInit(SPARSE_INDIVIDUALG, TRUE, "HOST", <<"HOST">>)

\* ragged connectivity built on the device, one variable set on the host
MismatchedInit == SynapseInit(RAGGED_INDIVIDUALG, FALSE, "DEVICE", <<"HOST">>)

\* the values the settings take
DTs == {"0.5", "1.0"}

FloatTypes == {"GENN_FLOAT", "GENN_DOUBLE", "GENN_LONG_DOUBLE", "unrecognised"}

ModelNames == {"", "model"}

RNTypes == {"uint64_t", "uint32_t"}

Seeds == {0, 1}

MaxConns == {1, 2}

\* block sizes of the kernels
BlkSizes == {1, 2}

\* the other block size
Rot(b) == IF b = 1 THEN 2 ELSE 1

\* block sizes of the four kernels: all equal, or alternating
BlkChoices ==
    {[neuronBlkSz |-> b, synapseBlkSz |-> b, learnBlkSz |-> b, synDynBlkSz |-> b] :
        b \in BlkSizes}
    \cup {[neuronBlkSz |-> b, synapseBlkSz |-> Rot(b), learnBlkSz |-> b,
           synDynBlkSz |-> Rot(b)] : b \in BlkSizes}

NoBlk == [neuronBlkSz |-> 0, synapseBlkSz |-> 0, learnBlkSz |-> 0, synDynBlkSz |-> 0]

\* ------------------------------------------------------------------------
\* Model registry: std::map helpers
\* ------------------------------------------------------------------------
EmptyMap == <<>>

Insert(map, key, val) == (key :> val) @@ map

MinOf(S) == CHOOSE x \in S : \A y \in S : x <= y

MaxOf(S) == CHOOSE x \in S : \A y \in S : y <= x

\* the keys of a std::map in iteration order
RECURSIVE Ascending(_)
Ascending(S) == IF S = {} THEN <<>> ELSE <<MinOf(S)>> \o Ascending(S \ {MinOf(S)})

RECURSIVE Descending(_)
Descending(S) == IF S = {} THEN <<>> ELSE <<MaxOf(S)>> \o Descending(S \ {MaxOf(S)})

\* the keys a range-based for loop over the map visits, in order
traversalReversed(map) == Descending(DOMAIN map)

traversal(map) == Ascending(DOMAIN map)

\* map.rbegin()->first
rbeginAsBegin(map) == MinOf(DOMAIN map)

rbegin(map) == MaxOf(DOMAIN map)

\* ------------------------------------------------------------------------
\* Model registry: population entities
\* ------------------------------------------------------------------------
Ref(part, name) == [part |-> part, name |-> name]

\* derivedParams: the timestep of every initDerivedParams call on the entity
NewNeuronGroup(size, hostID) ==
    [size |-> size, hostID |-> hostID, outSyn |-> <<>>, inSyn |-> <<>>,
     currentSources |-> <<>>, derivedParams |-> <<>>, paddedIDRange |-> <<0, 0>>,
     spikeEventRequired |-> FALSE, trueSpikeRequired |-> FALSE,
     spkEventCondition |-> {}, psmMerged |-> FALSE]

\* maxConnections 0: setMaxConnections has not been called
NewSynapseGroup(src, trg, wu, init) ==
    [src |-> src, trg |-> trg, wu |-> wu, matrixType |-> init.matrixType,
     rowBuildCodeEmpty |-> init.rowBuildCodeEmpty,
     sparseConnectivityVarMode |-> init.sparseConnectivityVarMode,
     wuVarModes |-> init.wuVarModes, maxConnections |-> 0,
     spanType |-> "POSTSYNAPTIC", derivedParams |-> <<>>,
     paddedKernelIDRange |-> <<0, 0>>,
     wuParams |-> init.weightParamValues, spikeEventRequired |-> FALSE,
     trueSpikeRequired |-> FALSE, eventThresholdReTestRequired |-> FALSE]

NewCurrentSource(trg) == [trg |-> trg, derivedParams |-> <<>>]

initDerivedParams(group, dt) == [group EXCEPT !.derivedParams = Append(@, dt)]

\* one loop of initDerivedParams calls over a map
initAllDerivedParams(groups, dt) ==
    [n \in DOMAIN groups |-> initDerivedParams(groups[n], dt)]

\* the variable mode test of finalize on one synapse group
varModeMismatchAnyConnectivity(sg) ==
    /\ ~sg.rowBuildCodeEmpty
    /\ sg.matrixType.weight = "INDIVIDUAL"
    /\ \E k \in 1..Len(sg.wuVarModes) :
           (sg.sparseConnectivityVarMode = "HOST") # (sg.wuVarModes[k] = "HOST")

varModeMismatch(sg) ==
    /\ sg.matrixType.connectivity \in {"RAGGED", "BITMASK"}
    /\ ~sg.rowBuildCodeEmpty
    /\ sg.matrixType.weight = "INDIVIDUAL"
    /\ \E k \in 1..Len(sg.wuVarModes) :
           (sg.sparseConnectivityVarMode = "HOST") # (sg.wuVarModes[k] = "HOST")

\* the kernel finalize picks for resetting the spike counters
resetKernelSwapped(synapseGroups, postLearnGroups) ==
    IF DOMAIN synapseGroups = {} THEN "calcNeurons"
    ELSE IF DOMAIN postLearnGroups # {} THEN "calcSynapses"
    ELSE "learnSynapsesPost"

resetKernelOf(synapseGroups, postLearnGroups) ==
    IF DOMAIN synapseGroups = {} THEN "calcNeurons"
    ELSE IF DOMAIN postLearnGroups # {} THEN "learnSynapsesPost"
    ELSE "calcSynapses"

\* ceil(size / blk) * blk
padSize(size, blk) == ((size + blk - 1) \div blk) * blk

\* NeuronGroup::calcSizes: assigns the padded range and advances the start
calcSizes(ng, blk, paddedIDStart) ==
    [group |-> [ng EXCEPT !.paddedIDRange =
                              <<paddedIDStart, paddedIDStart + padSize(ng.size, blk)>>],
     paddedIDStart |-> paddedIDStart + padSize(ng.size, blk)]

\* the pair setPopulationSums stores for a group that starts at startID and
\* leaves the running start of its kernel at paddedIDStart
idRangeEntryFromZero(startID, paddedIDStart) == <<0, paddedIDStart>>

idRangeEntry(startID, paddedIDStart) == <<startID, paddedIDStart>>

\* ------------------------------------------------------------------------
\* State
\* ------------------------------------------------------------------------
VARIABLES
    denseIn,        \* [preN, postN, tmp_gRNPN]: the arguments of the conversion
    sparseStruct,   \* SparseProjection: [indInG, ind, connN]
    wuvar,          \* the weight array parallel to sparseStruct.ind
    reconverted,    \* compressed-row result of converting DenseOf(sparseStruct)
    sparsePc,       \* "idle", "set", "created", "exited", "again"
    selfTest,       \* [runTest, samples]: the self test of the last conversion
    raggedIn,       \* [preN, postN]: the arguments of the ragged utilities
    C,              \* RaggedProjection
    raggedLog,      \* [writes, oob]: the stores of the last createPosttoPreArray
    raggedPc,       \* the ragged utilities that ran, or "crashed"
    mpiEnabled,     \* the build has MPI_ENABLE defined
    GeNNReady,      \* set by initGeNN
    final,          \* NNmodel::final
    err,            \* the gennError the last call raised, or "none"
    m_LocalNeuronGroups,
    m_RemoteNeuronGroups,
    m_LocalSynapseGroups,
    m_RemoteSynapseGroups,
    m_LocalCurrentSources,
    m_RemoteCurrentSources,
    m_SynapsePostLearnGroups,
    m_SynapseDynamicsGroups,
    blkSz,          \* the block sizes setPopulationSums read
    kernelParameters, \* the six maps of extra global parameters, by kernel
    finalizeLog,    \* history: [stages, merged], what finalize did, in order
    addOrder,       \* history: <<kind, part, name>> of every entity, as inserted
    cpuOnly,        \* the build has CPU_ONLY defined
    modelName,      \* NNmodel::name
    ftype,          \* NNmodel::ftype
    RNtype,         \* NNmodel::RNtype
    dt,             \* NNmodel::dt
    timing,         \* NNmodel::timing
    seed,           \* NNmodel::seed
    resetKernel,    \* NNmodel::resetKernel
    importDoc,      \* the network description the frontend reads
    importPc,       \* [phase, pop, item, synapsePop]: where the frontend is
    importLog       \* history: <<call, name, mtype>> of the frontend's calls

sparseVars == <<denseIn, sparseStruct, wuvar, reconverted, sparsePc, selfTest>>

raggedVars == <<raggedIn, C, raggedLog, raggedPc>>

groupVars ==
    <<m_LocalNeuronGroups, m_RemoteNeuronGroups, m_LocalSynapseGroups,
      m_RemoteSynapseGroups, m_LocalCurrentSources, m_RemoteCurrentSources,
      addOrder>>

gridVars ==
    <<m_SynapsePostLearnGroups, m_SynapseDynamicsGroups, blkSz, kernelParameters,
      finalizeLog>>

settingVars == <<modelName, ftype, RNtype, dt, timing, seed>>

importVars == <<importDoc, importPc, importLog>>

modelVars ==
    <<mpiEnabled, cpuOnly, GeNNReady, final, err, groupVars, gridVars, settingVars,
      resetKernel>>

vars == <<sparseVars, raggedVars, modelVars, importVars>>

NoCsr == [indInG |-> <<>>, ind |-> <<>>, wuvar |-> <<>>, synapse |-> 0]

NoSparseStruct == [indInG |-> <<>>, ind |-> <<>>, connN |-> Undef]

NoRagged ==
    [rowLength |-> <<>>, ind |-> <<>>, maxRowLength |-> 0, maxColLength |-> 0,
     colLength |-> <<>>, remap |-> <<>>, synRemap |-> <<>>]

\* the state NNmodel::NNmodel leaves, before initGeNN
Kernels == {"init", "neuron", "synapse", "postLearn", "synapseDynamics", "currentSource"}

NoKernelParameters == [k \in Kernels |-> EmptyMap]

NoFinalizeLog == [stages |-> <<>>, merged |-> <<>>]

ModelConstructed ==
    /\ GeNNReady = FALSE
    /\ final = FALSE
    /\ err = "none"
    /\ m_LocalNeuronGroups = EmptyMap
    /\ m_RemoteNeuronGroups = EmptyMap
    /\ m_LocalSynapseGroups = EmptyMap
    /\ m_RemoteSynapseGroups = EmptyMap
    /\ m_LocalCurrentSources = EmptyMap
    /\ m_RemoteCurrentSources = EmptyMap
    /\ m_SynapsePostLearnGroups = EmptyMap
    /\ m_SynapseDynamicsGroups = EmptyMap
    /\ blkSz = NoBlk
    /\ kernelParameters = NoKernelParameters
    /\ finalizeLog = NoFinalizeLog
    /\ addOrder = <<>>
    /\ modelName = ""
    /\ ftype = "float"
    /\ RNtype = "uint64_t"
    /\ dt = "0.5"
    /\ timing = FALSE
    /\ seed = 0

ModelIdle ==
    /\ mpiEnabled = FALSE
    /\ cpuOnly = FALSE
    /\ ModelConstructed
    /\ resetKernel = "indeterminate"

\* the frontend at a place of its run; synapsePop is the pointer the last
\* addSynapsePopulation returned
ImportAt(phase, pop, item, synapsePop) ==
    [phase |-> phase, pop |-> pop, item |-> item, synapsePop |-> synapsePop]

\* no frontend runs
ImportIdle ==
    /\ importDoc = <<>>
    /\ importPc = ImportAt("idle", 0, 0, Ref("none", 0))
    /\ importLog = <<>>

NoSelfTest == [runTest |-> FALSE, samples |-> {}]

SparseIdle ==
    /\ denseIn = [preN |-> 0, postN |-> 0, tmp_gRNPN |-> <<>>]
    /\ sparseStruct = NoSparseStruct
    /\ wuvar = <<>>
    /\ reconverted = NoCsr
    /\ sparsePc = "idle"
    /\ selfTest = NoSelfTest

RaggedIdle ==
    /\ raggedIn = [preN |-> 0, postN |-> 0]
    /\ C = NoRagged
    /\ raggedLog = [writes |-> <<>>, oob |-> FALSE]
    /\ raggedPc = {}

\* ------------------------------------------------------------------------
\* Dense -> compressed-row: specification
\* ------------------------------------------------------------------------
DenseInputs ==
    UNION {UNION {{[preN |-> n, postN |-> m, tmp_gRNPN |-> g] :
                       g \in [1..(n * m) -> DenseVals]} :
                  m \in {k \in 1..MaxPostN : n * k <= MaxCells}} :
           n \in 1..MaxPreN}

InitSparse ==
    /\ denseIn \in DenseInputs
    /\ sparseStruct = NoSparseStruct
    /\ wuvar = <<>>
    /\ reconverted = NoCsr
    /\ sparsePc = "idle"
    /\ selfTest = NoSelfTest
    /\ RaggedIdle
    /\ ImportIdle
    /\ ModelIdle

SetSparseConnectivityFromDense ==
    /\ sparsePc = "idle"
    /\ LET r == setSparseConnectivityFromDense(denseIn.preN, denseIn.postN, denseIn.tmp_gRNPN)
       IN /\ sparseStruct' = [sparseStruct EXCEPT !.indInG = r.indInG, !.ind = r.ind]
          /\ wuvar' = r.wuvar
    /\ sparsePc' = "set"
    /\ UNCHANGED <<denseIn, reconverted, selfTest, raggedVars, modelVars, importVars>>

CreateSparseConnectivityFromDense ==
    /\ sparsePc = "idle"
    /\ LET r == createSparseConnectivityFromDense(denseIn.preN, denseIn.postN, denseIn.tmp_gRNPN)
       IN /\ sparseStruct' = [indInG |-> r.csr.indInG, ind |-> r.csr.ind, connN |-> r.connN]
          /\ wuvar' = r.csr.wuvar
          /\ \E runTest \in BOOLEAN :
                IF ~runTest
                THEN /\ selfTest' = NoSelfTest
                     /\ sparsePc' = "created"
                ELSE \E samples \in SampleSets(denseIn.preN, denseIn.postN) :
                     \E failed \in selfTestOutcomes(r.csr.wuvar, r.csr, denseIn.postN,
                                                    denseIn.tmp_gRNPN, samples) :
                        /\ selfTest' = [runTest |-> TRUE, samples |-> samples]
                        /\ sparsePc' = IF failed THEN "exited" ELSE "created"
    /\ UNCHANGED <<denseIn, reconverted, raggedVars, modelVars, importVars>>

\* convert the dense matrix the compressed-row result stands for once more
ConvertAgain ==
    /\ sparsePc \in {"set", "created"}
    /\ reconverted' = setSparseConnectivityFromDense(
                          denseIn.preN, denseIn.postN,
                          DenseOf(denseIn.preN, denseIn.postN,
                                  [indInG |-> sparseStruct.indInG,
                                   ind |-> sparseStruct.ind, wuvar |-> wuvar]))
    /\ sparsePc' = "again"
    /\ UNCHANGED <<denseIn, sparseStruct, wuvar, selfTest, raggedVars, modelVars, importVars>>

NextSparse ==
    \/ SetSparseConnectivityFromDense
    \/ CreateSparseConnectivityFromDense
    \/ ConvertAgain

SpecSparse == InitSparse /\ [][NextSparse]_vars

\* ------------------------------------------------------------------------
\* Ragged utilities: specification
\* ------------------------------------------------------------------------
\* a well-formed forward representation: rowLength[i] <= maxRowLength, the
\* valid entries of ind are targets below postN, the padding is undefined
RaggedRows(nPre, nPost, maxRow) ==
    {r \in [rowLength : [1..nPre -> 0..maxRow],
            ind : [1..(nPre * maxRow) -> (0..(nPost - 1)) \cup {Undef}]] :
        \A i \in 0..(nPre - 1) : \A j \in 0..(maxRow - 1) :
            (At(r.ind, i * maxRow + j) = Undef) <=> (j >= At(r.rowLength, i))}

RaggedInputs ==
    UNION {UNION {UNION {
        {[preN |-> n, postN |-> m, rows |-> r] : r \in RaggedRows(n, m, w)} :
            w \in {k \in 1..MaxRowLen : n * k <= MaxCells}} :
        m \in 1..MaxPostN} : n \in 1..MaxPreN}

InitRagged ==
    /\ SparseIdle
    /\ ImportIdle
    /\ ModelIdle
    /\ \E in \in RaggedInputs, maxCol \in 1..MaxColLen, stale \in StaleColLength :
          /\ raggedIn = [preN |-> in.preN, postN |-> in.postN]
          /\ C = [rowLength |-> in.rows.rowLength, ind |-> in.rows.ind,
                  maxRowLength |-> Len(in.rows.ind) \div in.preN,
                  maxColLength |-> maxCol,
                  colLength |-> [t \in 1..in.postN |-> stale],
                  remap |-> [s \in 1..(in.postN * maxCol) |-> Undef],
                  synRemap |-> <<>>]
    /\ raggedLog = [writes |-> <<>>, oob |-> FALSE]
    /\ raggedPc = {}

\* A store outside remap is undefined behaviour: the run either crashes or
\* goes on with the store landing outside the structure.
CreatePosttoPreArray ==
    /\ "crashed" \notin raggedPc
    /\ "createPosttoPreArray" \notin raggedPc
    /\ LET r == createPosttoPreArray(raggedIn.preN, raggedIn.postN, C)
       IN /\ C' = [C EXCEPT !.colLength = r.colLength, !.remap = r.remap]
          /\ raggedLog' = [writes |-> r.writes, oob |-> r.oob]
          /\ \/ raggedPc' = raggedPc \cup {"createPosttoPreArray"}
             \/ r.oob /\ raggedPc' = raggedPc \cup {"createPosttoPreArray", "crashed"}
    /\ UNCHANGED <<raggedIn, sparseVars, modelVars, importVars>>

CreatePreIndices ==
    /\ "crashed" \notin raggedPc
    /\ "createPreIndices" \notin raggedPc
    /\ C' = [C EXCEPT !.synRemap = createPreIndices(raggedIn.preN, C)]
    /\ raggedPc' = raggedPc \cup {"createPreIndices"}
    /\ UNCHANGED <<raggedIn, raggedLog, sparseVars, modelVars, importVars>>

NextRagged ==
    \/ CreatePosttoPreArray
    \/ CreatePreIndices

SpecRagged == InitRagged /\ [][NextRagged]_vars

\* ------------------------------------------------------------------------
\* Model registry: lookups
\* ------------------------------------------------------------------------
NeuronGroupKnown(name) ==
    name \in DOMAIN m_LocalNeuronGroups \/ name \in DOMAIN m_RemoteNeuronGroups

\* NNmodel::findNeuronGroup: the local partition is searched first
\* the NULL a lookup returns for a name in neither partition
NullGroup == Ref("none", 0)

\* a lookup that settles for the first local group when the name is missing
findNeuronGroupOrFirst(name) ==
    IF name \in DOMAIN m_LocalNeuronGroups THEN Ref("local", name)
    ELSE IF name \in DOMAIN m_RemoteNeuronGroups THEN Ref("remote", name)
    ELSE IF DOMAIN m_LocalNeuronGroups # {}
    THEN Ref("local", MinOf(DOMAIN m_LocalNeuronGroups))
    ELSE NullGroup

findNeuronGroup(name) ==
    IF name \in DOMAIN m_LocalNeuronGroups THEN Ref("local", name)
    ELSE IF name \in DOMAIN m_RemoteNeuronGroups THEN Ref("remote", name)
    ELSE NullGroup

NeuronGroupAt(ref) ==
    IF ref.part = "local" THEN m_LocalNeuronGroups[ref.name]
    ELSE m_RemoteNeuronGroups[ref.name]

SynapseGroupKnown(name) ==
    name \in DOMAIN m_LocalSynapseGroups \/ name \in DOMAIN m_RemoteSynapseGroups

\* NNmodel::findSynapseGroup: the local partition is searched first
findSynapseGroup(name) ==
    IF name \in DOMAIN m_LocalSynapseGroups THEN Ref("local", name)
    ELSE IF name \in DOMAIN m_RemoteSynapseGroups THEN Ref("remote", name)
    ELSE NullGroup

\* the partition an entity with this host id goes to
partitionOfAlwaysLocal(hostID) == "local"

partitionOf(hostID) ==
    IF mpiEnabled THEN (IF hostID = mpiHostID THEN "local" ELSE "remote")
    ELSE "local"

Entities ==
    Cardinality(DOMAIN m_LocalNeuronGroups) + Cardinality(DOMAIN m_RemoteNeuronGroups)
    + Cardinality(DOMAIN m_LocalSynapseGroups) + Cardinality(DOMAIN m_RemoteSynapseGroups)
    + Cardinality(DOMAIN m_LocalCurrentSources) + Cardinality(DOMAIN m_RemoteCurrentSources)

\* gennError: the call ends with the error; what it did before stays
gennError(e) ==
    /\ err' = e
    /\ UNCHANGED <<mpiEnabled, cpuOnly, GeNNReady, final, groupVars, gridVars, settingVars, resetKernel>>

\* the group a pointer to a neuron group refers to, in the two neuron maps
Deref(maps, ref) ==
    IF ref.part = "local" THEN maps.local[ref.name] ELSE maps.remote[ref.name]

\* the two neuron maps after a write through a pointer to a neuron group
Assign(maps, ref, ng) ==
    IF ref.part = "local"
    THEN [maps EXCEPT !.local = [@ EXCEPT ![ref.name] = ng]]
    ELSE [maps EXCEPT !.remote = [@ EXCEPT ![ref.name] = ng]]

\* ------------------------------------------------------------------------
\* Model registry: thread-grid sizes of one group
\* ------------------------------------------------------------------------
synapseKernelSize(sg) == NeuronGroupAt(sg.trg).size

postLearnKernelSize(sg) == NeuronGroupAt(sg.src).size

dynKernelSize(sg) == NeuronGroupAt(sg.src).size * NeuronGroupAt(sg.trg).size

\* SynapseGroup::calcKernelSizes
calcKernelSizes(sg, blk, paddedKernelIDStart) ==
    [group |-> [sg EXCEPT !.paddedKernelIDRange =
                   <<paddedKernelIDStart,
                     paddedKernelIDStart + padSize(synapseKernelSize(sg), blk)>>],
     paddedKernelIDStart |-> paddedKernelIDStart + padSize(synapseKernelSize(sg), blk)]

getPaddedPostLearnKernelSize(sg, blk) == padSize(postLearnKernelSize(sg), blk)

getPaddedDynKernelSize(sg, blk) == padSize(dynKernelSize(sg), blk)

\* ------------------------------------------------------------------------
\* NNmodel::setPopulationSums
\* ------------------------------------------------------------------------
\* the loop over m_LocalNeuronGroups
RECURSIVE sumNeuronGroups(_, _, _, _)
sumNeuronGroups(groups, order, blk, paddedNeuronIDStart) ==
    IF order = <<>> THEN groups
    ELSE LET r == calcSizes(groups[Head(order)], blk.neuronBlkSz, paddedNeuronIDStart)
         IN sumNeuronGroups([groups EXCEPT ![Head(order)] = r.group], Tail(order),
                            blk, r.paddedIDStart)

\* the loop over m_LocalSynapseGroups; st holds the maps written and the
\* three running starts
RECURSIVE sumSynapseGroups(_, _, _)
sumSynapseGroups(order, blk, st) ==
    IF order = <<>> THEN st
    ELSE LET name == Head(order)
             s == st.groups[name]
             k == calcKernelSizes(s, blk.synapseBlkSz, st.paddedSynapseKernelIDStart)
             st1 == [st EXCEPT !.groups[name] = k.group,
                               !.paddedSynapseKernelIDStart = k.paddedKernelIDStart]
             st2 == IF ~learnPostCodeEmpty(s.wu)
                    THEN LET startID == st1.paddedSynapsePostLearnIDStart
                             next == startID + getPaddedPostLearnKernelSize(s, blk.learnBlkSz)
                         IN [st1 EXCEPT !.paddedSynapsePostLearnIDStart = next,
                                        !.postLearnGroups =
                                            Insert(@, name, idRangeEntry(startID, next))]
                    ELSE st1
             st3 == IF ~synapseDynamicsCodeEmpty(s.wu)
                    THEN LET startID == st2.paddedSynapseDynamicsIDStart
                             next == startID + getPaddedDynKernelSize(s, blk.synDynBlkSz)
                         IN [st2 EXCEPT !.paddedSynapseDynamicsIDStart = next,
                                        !.dynamicsGroups =
                                            Insert(@, name, idRangeEntry(startID, next))]
                    ELSE st2
         IN sumSynapseGroups(Tail(order), blk, st3)

\* neuronGroups, synapseGroups: the local maps as the caller left them
setPopulationSums(blk, neuronGroups, synapseGroups) ==
    LET syn == sumSynapseGroups(
                   traversal(synapseGroups), blk,
                   [groups |-> synapseGroups,
                    postLearnGroups |-> m_SynapsePostLearnGroups,
                    dynamicsGroups |-> m_SynapseDynamicsGroups,
                    paddedSynapseKernelIDStart |-> 0,
                    paddedSynapseDynamicsIDStart |-> 0,
                    paddedSynapsePostLearnIDStart |-> 0])
    IN /\ m_LocalNeuronGroups' =
              sumNeuronGroups(neuronGroups, traversal(neuronGroups), blk, 0)
       /\ m_LocalSynapseGroups' = syn.groups
       /\ m_SynapsePostLearnGroups' = syn.postLearnGroups
       /\ m_SynapseDynamicsGroups' = syn.dynamicsGroups
       /\ blkSz' = blk

\* ------------------------------------------------------------------------
\* NNmodel: queries
\* ------------------------------------------------------------------------
\* a listing of a kernel parameter map that starts from its last key
kernelParameterListFromLast(kernel) == traversalReversed(kernelParameters[kernel])

\* the names a kernel parameter map hands out, in the order a loop over the
\* std::map visits them
kernelParameterList(kernel) == traversal(kernelParameters[kernel])

getNeuronGridSize ==
    IF DOMAIN m_LocalNeuronGroups = {} THEN 0
    ELSE m_LocalNeuronGroups[rbegin(m_LocalNeuronGroups)].paddedIDRange[2]

getSynapseKernelGridSize ==
    IF DOMAIN m_LocalSynapseGroups = {} THEN 0
    ELSE m_LocalSynapseGroups[rbegin(m_LocalSynapseGroups)].paddedKernelIDRange[2]

getSynapsePostLearnGridSize ==
    IF DOMAIN m_SynapsePostLearnGroups = {} THEN 0
    ELSE m_SynapsePostLearnGroups[rbegin(m_SynapsePostLearnGroups)][2]

getSynapseDynamicsGridSize ==
    IF DOMAIN m_SynapseDynamicsGroups = {} THEN 0
    ELSE m_SynapseDynamicsGroups[rbegin(m_SynapseDynamicsGroups)][2]

\* an isSynapseGroupPostLearningRequired that looks in the dynamics map
isSynapseGroupPostLearningRequiredInDynamics(name) ==
    name \in DOMAIN m_SynapseDynamicsGroups

isSynapseGroupPostLearningRequired(name) ==
    name \in DOMAIN m_SynapsePostLearnGroups

isSynapseGroupDynamicsRequired(name) ==
    name \in DOMAIN m_SynapseDynamicsGroups

\* ------------------------------------------------------------------------
\* NNmodel: operations
\* ------------------------------------------------------------------------
initGeNN ==
    /\ GeNNReady' = TRUE
    /\ err' = "none"
    /\ UNCHANGED <<mpiEnabled, cpuOnly, final, groupVars, gridVars, settingVars, resetKernel>>

addNeuronPopulation(name, size, hostID) ==
    /\ Entities < MaxEntities
    /\ IF ~GeNNReady THEN gennError("You need to call initGeNN first.")
       ELSE IF final THEN gennError("Trying to add a neuron population to a finalized model.")
       ELSE LET part == partitionOf(hostID)
                group == NewNeuronGroup(size, IF mpiEnabled THEN hostID ELSE 0)
                groupMap == IF part = "local" THEN m_LocalNeuronGroups
                            ELSE m_RemoteNeuronGroups
            IN IF name \in DOMAIN groupMap
               THEN gennError("Cannot add a neuron population with duplicate name")
               ELSE /\ IF part = "local"
                       THEN /\ m_LocalNeuronGroups' = Insert(groupMap, name, group)
                            /\ UNCHANGED m_RemoteNeuronGroups
                       ELSE /\ m_RemoteNeuronGroups' = Insert(groupMap, name, group)
                            /\ UNCHANGED m_LocalNeuronGroups
                    /\ addOrder' = Append(addOrder, <<"neuron", part, name>>)
                    /\ err' = "none"
                    /\ UNCHANGED <<mpiEnabled, cpuOnly, GeNNReady, final, settingVars,
                                   resetKernel,
                                   m_LocalSynapseGroups, m_RemoteSynapseGroups,
                                   m_LocalCurrentSources, m_RemoteCurrentSources,
                                   gridVars>>

addOutSyn(ng, sgRef) == [ng EXCEPT !.outSyn = Append(@, sgRef)]

addInSyn(ng, sgRef) == [ng EXCEPT !.inSyn = Append(@, sgRef)]

injectCurrent(ng, csRef) == [ng EXCEPT !.currentSources = Append(@, csRef)]

\* the part the two addSynapsePopulation have in common: the lookups of the
\* source and the target, the choice of the map and the emplace
emplaceSynapseGroup(name, src, trg, wu, init) ==
       IF findNeuronGroup(src) = NullGroup \/ findNeuronGroup(trg) = NullGroup
       THEN gennError("neuron group not found, aborting ...")
       ELSE LET srcNeuronGrp == findNeuronGroup(src)
                trgNeuronGrp == findNeuronGroup(trg)
                part == partitionOf(NeuronGroupAt(trgNeuronGrp).hostID)
                groupMap == IF part = "local" THEN m_LocalSynapseGroups
                            ELSE m_RemoteSynapseGroups
                group == NewSynapseGroup(srcNeuronGrp, trgNeuronGrp, wu, init)
                ngs0 == [local |-> m_LocalNeuronGroups, remote |-> m_RemoteNeuronGroups]
                ngs1 == Assign(ngs0, trgNeuronGrp, addInSyn(Deref(ngs0, trgNeuronGrp), Ref(part, name)))
                ngs2 == Assign(ngs1, srcNeuronGrp, addOutSyn(Deref(ngs1, srcNeuronGrp), Ref(part, name)))
            IN IF name \in DOMAIN groupMap
               THEN gennError("Cannot add a synapse population with duplicate name")
               ELSE /\ IF part = "local"
                       THEN /\ m_LocalSynapseGroups' = Insert(groupMap, name, group)
                            /\ UNCHANGED m_RemoteSynapseGroups
                       ELSE /\ m_RemoteSynapseGroups' = Insert(groupMap, name, group)
                            /\ UNCHANGED m_LocalSynapseGroups
                    /\ m_LocalNeuronGroups' = ngs2.local
                    /\ m_RemoteNeuronGroups' = ngs2.remote
                    /\ addOrder' = Append(addOrder, <<"synapse", part, name>>)
                    /\ err' = "none"
                    /\ UNCHANGED <<mpiEnabled, cpuOnly, GeNNReady, final, settingVars,
                                   resetKernel,
                                   m_LocalCurrentSources, m_RemoteCurrentSources,
                                   gridVars>>

\* SynapseConnType and SynapseGType, and a value outside each enum
SynapseConnTypes == {"ALLTOALL", "DENSE", "SPARSE", "other"}

SynapseGTypes == {"INDIVIDUALG", "GLOBALG", "INDIVIDUALID", "other"}

NoMatrixType == MatrixType("none", "none")

\* the if-chain of the legacy addSynapsePopulation
legacyMatrixTypeBitmaskFirst(conntype, gtype) ==
    IF gtype = "INDIVIDUALID" \/ conntype = "SPARSE" THEN BITMASK_GLOBALG
    ELSE IF conntype \in {"DENSE", "ALLTOALL"} /\ gtype = "INDIVIDUALG" THEN DENSE_INDIVIDUALG
    ELSE IF conntype \in {"DENSE", "ALLTOALL"} /\ gtype = "GLOBALG" THEN DENSE_GLOBALG
    ELSE NoMatrixType

legacyMatrixType(conntype, gtype) ==
    IF conntype = "SPARSE" /\ gtype = "GLOBALG" THEN SPARSE_GLOBALG
    ELSE IF conntype = "SPARSE" /\ gtype = "INDIVIDUALG" THEN SPARSE_INDIVIDUALG
    ELSE IF conntype \in {"DENSE", "ALLTOALL"} /\ gtype = "INDIVIDUALG" THEN DENSE_INDIVIDUALG
    ELSE IF conntype \in {"DENSE", "ALLTOALL"} /\ gtype = "GLOBALG" THEN DENSE_GLOBALG
    ELSE IF gtype = "INDIVIDUALID" THEN BITMASK_GLOBALG
    ELSE NoMatrixType

\* an addSynapsePopulation without the test of final
addSynapsePopulationUnchecked(name, src, trg, wu, init) ==
    /\ Entities < MaxEntities
    /\ IF ~GeNNReady THEN gennError("You need to call initGeNN first.")
       ELSE emplaceSynapseGroup(name, src, trg, wu, init)

addSynapsePopulation(name, src, trg, wu, init) ==
    /\ Entities < MaxEntities
    /\ IF ~GeNNReady THEN gennError("You need to call initGeNN first.")
       ELSE IF final THEN gennError("Trying to add a synapse population to a finalized model.")
       ELSE emplaceSynapseGroup(name, src, trg, wu, init)

\* the addSynapsePopulation that takes a connectivity and a conductance type;
\* countsMatch: the four value lists have the lengths the models declare
addSynapsePopulationLegacy(name, conntype, gtype, src, trg, wu, countsMatch) ==
    /\ Entities < MaxEntities
    /\ IF ~GeNNReady THEN gennError("You need to call initGeNN first.")
       ELSE IF final THEN gennError("Trying to add a synapse population to a finalized model.")
       ELSE IF ~countsMatch
       THEN gennError("The number of values for synapse group does not match that of their synapse type")
       ELSE IF legacyMatrixType(conntype, gtype) = NoMatrixType
       THEN gennError("Combination of connection type and weight type not supported")
       ELSE emplaceSynapseGroup(name, src, trg, wu,
                                SynapseInit(legacyMatrixType(conntype, gtype), TRUE,
                                            "HOST", <<"HOST">>))

\* addCurrentSource after its tests of GeNNReady and final
emplaceCurrentSource(currentSourceName, targetNeuronGroupName) ==
       IF findNeuronGroup(targetNeuronGroupName) = NullGroup
       THEN gennError("neuron group not found, aborting ...")
       ELSE LET targetGroup == findNeuronGroup(targetNeuronGroupName)
                part == partitionOf(NeuronGroupAt(targetGroup).hostID)
                groupMap == IF part = "local" THEN m_LocalCurrentSources
                            ELSE m_RemoteCurrentSources
                ngs0 == [local |-> m_LocalNeuronGroups, remote |-> m_RemoteNeuronGroups]
                ngs1 == Assign(ngs0, targetGroup,
                               injectCurrent(Deref(ngs0, targetGroup),
                                             Ref(part, currentSourceName)))
            IN IF currentSourceName \in DOMAIN groupMap
               THEN gennError("Cannot add a current source with duplicate name")
               ELSE /\ IF part = "local"
                       THEN /\ m_LocalCurrentSources' =
                                   Insert(groupMap, currentSourceName,
                                          NewCurrentSource(targetGroup))
                            /\ UNCHANGED m_RemoteCurrentSources
                       ELSE /\ m_RemoteCurrentSources' =
                                   Insert(groupMap, currentSourceName,
                                          NewCurrentSource(targetGroup))
                            /\ UNCHANGED m_LocalCurrentSources
                    /\ m_LocalNeuronGroups' = ngs1.local
                    /\ m_RemoteNeuronGroups' = ngs1.remote
                    /\ addOrder' = Append(addOrder, <<"currentSource", part, currentSourceName>>)
                    /\ err' = "none"
                    /\ UNCHANGED <<mpiEnabled, cpuOnly, GeNNReady, final, settingVars,
                                   resetKernel,
                                   m_LocalSynapseGroups, m_RemoteSynapseGroups,
                                   gridVars>>

\* an addCurrentSource that tests final before GeNNReady
addCurrentSourceFinalFirst(currentSourceName, targetNeuronGroupName) ==
    /\ Entities < MaxEntities
    /\ IF final THEN gennError("Trying to add a current source to a finalized model.")
       ELSE IF ~GeNNReady THEN gennError("You need to call initGeNN first.")
       ELSE emplaceCurrentSource(currentSourceName, targetNeuronGroupName)

addCurrentSource(currentSourceName, targetNeuronGroupName) ==
    /\ Entities < MaxEntities
    /\ IF ~GeNNReady THEN gennError("You need to call initGeNN first.")
       ELSE IF final THEN gennError("Trying to add a current source to a finalized model.")
       ELSE emplaceCurrentSource(currentSourceName, targetNeuronGroupName)

\* ------------------------------------------------------------------------
\* NNmodel: settings
\* ------------------------------------------------------------------------
\* what a call that only writes settings leaves alone
RegistryKept ==
    UNCHANGED <<mpiEnabled, cpuOnly, GeNNReady, final, groupVars, gridVars, resetKernel>>

setName(inname) ==
    IF final THEN gennError("Trying to set the name of a finalized model.")
    ELSE /\ modelName' = inname
         /\ err' = "none"
         /\ RegistryKept
         /\ UNCHANGED <<ftype, RNtype, dt, timing, seed>>

setDT(newDT) ==
    IF final THEN gennError("Trying to set DT in a finalized model.")
    ELSE /\ dt' = newDT
         /\ err' = "none"
         /\ RegistryKept
         /\ UNCHANGED <<modelName, ftype, RNtype, timing, seed>>

\* the switch of setPrecision
ftypeOfAlwaysFloat(floattype) == "float"

ftypeOf(floattype) ==
    CASE floattype = "GENN_FLOAT" -> "float"
      [] floattype = "GENN_DOUBLE" -> "double"
      [] floattype = "GENN_LONG_DOUBLE" -> "long double"

setPrecision(floattype) ==
    IF final THEN gennError("Trying to set the precision of a finalized model.")
    ELSE IF floattype \notin {"GENN_FLOAT", "GENN_DOUBLE", "GENN_LONG_DOUBLE"}
    THEN gennError("Unrecognised floating-point type.")
    ELSE /\ ftype' = ftypeOf(floattype)
         /\ err' = "none"
         /\ RegistryKept
         /\ UNCHANGED <<modelName, RNtype, dt, timing, seed>>

setTiming(theTiming) ==
    IF final THEN gennError("Trying to set timing flag in a finalized model.")
    ELSE /\ timing' = theTiming
         /\ err' = "none"
         /\ RegistryKept
         /\ UNCHANGED <<modelName, ftype, RNtype, dt, seed>>

setSeed(inseed) ==
    IF final THEN gennError("Trying to set the random seed in a finalized model.")
    ELSE /\ seed' = inseed
         /\ err' = "none"
         /\ RegistryKept
         /\ UNCHANGED <<modelName, ftype, RNtype, dt, timing>>

setRNType(type) ==
    IF final THEN gennError("Trying to set the random number type in a finalized model.")
    ELSE /\ RNtype' = type
         /\ err' = "none"
         /\ RegistryKept
         /\ UNCHANGED <<modelName, ftype, dt, timing, seed>>

\* a write to the synapse group a findSynapseGroup pointer refers to
assignSynapseGroup(ref, sg) ==
    /\ IF ref.part = "local"
       THEN /\ m_LocalSynapseGroups' = [m_LocalSynapseGroups EXCEPT ![ref.name] = sg]
            /\ UNCHANGED m_RemoteSynapseGroups
       ELSE /\ m_RemoteSynapseGroups' = [m_RemoteSynapseGroups EXCEPT ![ref.name] = sg]
            /\ UNCHANGED m_LocalSynapseGroups
    /\ err' = "none"
    /\ UNCHANGED <<mpiEnabled, cpuOnly, GeNNReady, final, m_LocalNeuronGroups,
                   m_RemoteNeuronGroups, m_LocalCurrentSources, m_RemoteCurrentSources,
                   addOrder, gridVars, settingVars, resetKernel>>

SynapseGroupAt(ref) ==
    IF ref.part = "local" THEN m_LocalSynapseGroups[ref.name]
    ELSE m_RemoteSynapseGroups[ref.name]

setMaxConn(sname, maxConnP) ==
    IF final THEN gennError("Trying to set MaxConn in a finalized model.")
    ELSE IF findSynapseGroup(sname) = NullGroup
    THEN gennError("synapse group not found, aborting ...")
    ELSE assignSynapseGroup(findSynapseGroup(sname),
                            [SynapseGroupAt(findSynapseGroup(sname))
                                EXCEPT !.maxConnections = maxConnP])

setSpanTypeToPre(sname) ==
    IF final THEN gennError("Trying to set spanType in a finalized model.")
    ELSE IF findSynapseGroup(sname) = NullGroup
    THEN gennError("synapse group not found, aborting ...")
    ELSE assignSynapseGroup(findSynapseGroup(sname),
                            [SynapseGroupAt(findSynapseGroup(sname))
                                EXCEPT !.spanType = "PRESYNAPTIC"])

\* final as finalize leaves it: the flag is set before any stage runs
finalOnSuccessOnly(failed) == ~failed

finalOnExit(failed) == TRUE

\* ------------------------------------------------------------------------
\* NNmodel::finalize
\* ------------------------------------------------------------------------
\* st is the model while finalize runs: ngs and sgs hold the local and the
\* remote map of the neuron and of the synapse groups, cs the local current
\* sources, params the kernel parameter maps, stages and merged the history,
\* failed whether gennError was raised
stageDone(st, stage, kind, name) ==
    [st EXCEPT !.stages = Append(@, <<stage, kind, name>>)]

\* the event threshold condition of a synapse group after value_substitutions
\* and name_substitutions: the parameter has given way to the group's value,
\* the extra global parameters carry the group's name
substitutedCondition(sg, sgName) ==
    [code |-> eventThresholdConditionCode(sg.wu),
     values |-> IF hasParam(sg.wu) THEN sg.wuParams ELSE <<>>,
     suffix |-> IF extraGlobalParams(sg.wu) = <<>> THEN 0 ELSE sgName]

\* sgName stands for sgName + "_weightupdate_simCode", 0 for ""
supportCodeNamespaceName(sg, sgName) ==
    IF simSupportCodeEmpty(sg.wu) THEN 0 ELSE sgName

\* the neuron group keeps each distinct condition once, with the namespace
\* it first came with
addSpkEventCondition(ng, eCode, namespaceName) ==
    IF \E c \in ng.spkEventCondition : c[1] = eCode THEN ng
    ELSE [ng EXCEPT !.spkEventCondition = @ \cup {<<eCode, namespaceName>>}]

\* a setSpikeEventRequired on the synapse group alone
setSpikeEventRequiredOnSynapseGroup(st, n, ref) ==
    LET sg == Deref(st.sgs, ref)
    IN [st EXCEPT !.sgs = Assign(st.sgs, ref, [sg EXCEPT !.spikeEventRequired = TRUE])]

\* sg->setSpikeEventRequired(true); n.second.setSpikeEventRequired(true)
setSpikeEventRequired(st, n, ref) ==
    LET sg == Deref(st.sgs, ref)
    IN [st EXCEPT !.sgs = Assign(st.sgs, ref, [sg EXCEPT !.spikeEventRequired = TRUE]),
                  !.ngs.local[n].spikeEventRequired = TRUE]

\* the inner loop over the outgoing synapse groups of neuron group n
RECURSIVE propagateEventCode(_, _, _)
propagateEventCode(st, n, outSyn) ==
    IF outSyn = <<>> THEN st
    ELSE LET ref == Head(outSyn)
             sg == Deref(st.sgs, ref)
         IN IF ~eventCodeEmpty(sg.wu)
            THEN LET st1 == setSpikeEventRequired(st, n, ref)
                     st2 == [st1 EXCEPT !.ngs.local[n] =
                                addSpkEventCondition(@, substitutedCondition(sg, ref.name),
                                                     supportCodeNamespaceName(sg, ref.name))]
                     st3 == stageDone(st2, "varQueues", "outSyn", ref.name)
                 IN propagateEventCode(st3, n, Tail(outSyn))
            ELSE propagateEventCode(st, n, Tail(outSyn))

\* the test on the conditions a neuron group has accumulated
severalSpikeEventConditionsOrOne(ng) == Cardinality(ng.spkEventCondition) >= 1

severalSpikeEventConditions(ng) == Cardinality(ng.spkEventCondition) > 1

\* the second inner loop: the groups with event code are to test again
RECURSIVE markEventThresholdReTest(_, _)
markEventThresholdReTest(st, outSyn) ==
    IF outSyn = <<>> THEN st
    ELSE LET ref == Head(outSyn)
             sg == Deref(st.sgs, ref)
             st1 == IF ~eventCodeEmpty(sg.wu)
                    THEN [st EXCEPT !.sgs =
                             Assign(st.sgs, ref,
                                    [sg EXCEPT !.eventThresholdReTestRequired = TRUE])]
                    ELSE st
         IN markEventThresholdReTest(st1, Tail(outSyn))

\* the loop over m_LocalNeuronGroups and their outgoing synapse groups
RECURSIVE propagateRequirements(_, _)
propagateRequirements(st, order) ==
    IF order = <<>> THEN st
    ELSE LET n == Head(order)
             outSyn == st.ngs.local[n].outSyn
             st1 == propagateEventCode(stageDone(st, "requirements", "neuron", n),
                                       n, outSyn)
             st2 == IF severalSpikeEventConditions(st1.ngs.local[n])
                    THEN markEventThresholdReTest(st1, outSyn)
                    ELSE st1
         IN propagateRequirements(st2, Tail(order))

\* the merge of declared extra global parameters into the map of one kernel:
\* a name that is in the map is skipped
RECURSIVE addExtraGlobalParams(_, _, _)
addExtraGlobalParams(st, kernel, names) ==
    IF names = <<>> THEN st
    ELSE LET p == Head(names)
             st1 == IF p \in DOMAIN st.params[kernel] THEN st
                    ELSE [st EXCEPT !.params[kernel] = Insert(@, p, "scalar"),
                                    !.merged = Append(@, <<kernel, p>>)]
         IN addExtraGlobalParams(st1, kernel, Tail(names))

\* the extra global parameters a weight update model brings to a kernel:
\* those of its event threshold condition to the neuron kernel, all to the
\* synapse kernel, those of its learn-post and synapse-dynamics code to
\* their kernels; the connectivity initialisers here declare none
extraGlobalParamsFor(wu, kernel) ==
    CASE kernel = "init" -> <<>>
      [] kernel = "neuron" -> IF eventCodeEmpty(wu) THEN <<>> ELSE extraGlobalParams(wu)
      [] kernel = "synapse" -> extraGlobalParams(wu)
      [] kernel = "postLearn" ->
             IF learnPostCodeEmpty(wu) THEN <<>> ELSE extraGlobalParams(wu)
      [] kernel = "synapseDynamics" ->
             IF synapseDynamicsCodeEmpty(wu) THEN <<>> ELSE extraGlobalParams(wu)

\* the kernels whose maps the loop over the synapse groups merges into, in
\* the order of the calls
synapseGroupKernels == <<"init", "neuron", "synapse", "postLearn", "synapseDynamics">>

RECURSIVE addSynapseGroupParams(_, _, _)
addSynapseGroupParams(st, wu, kernels) ==
    IF kernels = <<>> THEN st
    ELSE addSynapseGroupParams(
             addExtraGlobalParams(st, Head(kernels), extraGlobalParamsFor(wu, Head(kernels))),
             wu, Tail(kernels))

\* the loop over m_LocalNeuronGroups: derived parameters and parameter lists
\* (the neuron models here declare no extra global parameters)
RECURSIVE finalizeNeuronGroups(_, _, _)
finalizeNeuronGroups(st, order, step) ==
    IF order = <<>> THEN st
    ELSE LET n == Head(order)
             st1 == [st EXCEPT !.ngs.local[n] = initDerivedParams(@, step)]
             st2 == stageDone(st1, "derivedParams", "neuron", n)
             st3 == stageDone(addExtraGlobalParams(st2, "neuron", <<>>),
                              "parameters", "neuron", n)
         IN finalizeNeuronGroups(st3, Tail(order), step)

\* s.second.getSrcNeuronGroup()->updateVarQueues(code) when the code of
\* synapse group s is not empty
updateVarQueuesIf(st, codeNotEmpty, s) ==
    IF codeNotEmpty THEN stageDone(st, "varQueues", "synapse", s) ELSE st

\* setTrueSpikeRequired on the group and on its source when it has sim code
setTrueSpikeRequired(st, s) ==
    LET sg == st.sgs.local[s]
        src == Deref(st.ngs, sg.src)
    IN IF simCodeEmpty(sg.wu) THEN st
       ELSE [st EXCEPT !.sgs.local[s].trueSpikeRequired = TRUE,
                       !.ngs = Assign(st.ngs, sg.src,
                                      [src EXCEPT !.trueSpikeRequired = TRUE])]

\* a loop over m_LocalSynapseGroups that goes on to the next group after a
\* group failed the variable mode test
RECURSIVE finalizeSynapseGroupsTestLast(_, _, _)
finalizeSynapseGroupsTestLast(st, order, step) ==
    IF order = <<>> THEN st
    ELSE LET s == Head(order)
             wu == st.sgs.local[s].wu
             st1 == stageDone([st EXCEPT !.sgs.local[s] = initDerivedParams(@, step)],
                              "derivedParams", "synapse", s)
             st2 == updateVarQueuesIf(setTrueSpikeRequired(st1, s), ~simCodeEmpty(wu), s)
             st3 == updateVarQueuesIf(st2, ~learnPostCodeEmpty(wu), s)
             st4 == updateVarQueuesIf(st3, ~synapseDynamicsCodeEmpty(wu), s)
             st5 == stageDone(addSynapseGroupParams(st4, wu, synapseGroupKernels),
                              "parameters", "synapse", s)
             st6 == stageDone(st5, "placement", "synapse", s)
         IN finalizeSynapseGroupsTestLast(
                [st6 EXCEPT !.failed = @ \/ varModeMismatch(st.sgs.local[s])],
                Tail(order), step)

\* the loop of finalize over m_LocalSynapseGroups: derived parameters,
\* queues, parameter lists, then the variable mode test, which ends the loop
\* in the group that fails it
RECURSIVE finalizeSynapseGroups(_, _, _)
finalizeSynapseGroups(st, order, step) ==
    IF order = <<>> THEN st
    ELSE LET s == Head(order)
             wu == st.sgs.local[s].wu
             st1 == stageDone([st EXCEPT !.sgs.local[s] = initDerivedParams(@, step)],
                              "derivedParams", "synapse", s)
             st2 == updateVarQueuesIf(setTrueSpikeRequired(st1, s), ~simCodeEmpty(wu), s)
             st3 == updateVarQueuesIf(st2, ~learnPostCodeEmpty(wu), s)
             st4 == updateVarQueuesIf(st3, ~synapseDynamicsCodeEmpty(wu), s)
             st5 == stageDone(addSynapseGroupParams(st4, wu, synapseGroupKernels),
                              "parameters", "synapse", s)
             st6 == stageDone(st5, "placement", "synapse", s)
         IN IF varModeMismatch(st.sgs.local[s])
            THEN [st6 EXCEPT !.failed = TRUE]
            ELSE finalizeSynapseGroups(st6, Tail(order), step)

\* one loop over m_LocalCurrentSources (the current source models here
\* declare no extra global parameters)
RECURSIVE finalizeCurrentSources(_, _, _)
finalizeCurrentSources(st, order, step) ==
    IF order = <<>> THEN st
    ELSE LET c == Head(order)
             st1 == stageDone([st EXCEPT !.cs[c] = initDerivedParams(@, step)],
                              "derivedParams", "currentSource", c)
             st2 == stageDone(addExtraGlobalParams(st1, "currentSource", <<>>),
                              "parameters", "currentSource", c)
         IN finalizeCurrentSources(st2, Tail(order), step)

\* the loop that merges the incoming postsynaptic models of the neuron
\* groups that have incoming synapse groups
RECURSIVE mergeIncomingPSMs(_, _)
mergeIncomingPSMs(st, order) ==
    IF order = <<>> THEN st
    ELSE LET n == Head(order)
             st1 == IF st.ngs.local[n].inSyn # <<>>
                    THEN stageDone([st EXCEPT !.ngs.local[n].psmMerged = TRUE],
                                   "mergePSM", "neuron", n)
                    ELSE st
         IN mergeIncomingPSMs(st1, Tail(order))

\* finalize from the loop over the current sources on
finalizeAfterSynapseGroups(st, step) ==
    LET cs1 == finalizeCurrentSources(st, traversal(st.cs), step)
        psm == mergeIncomingPSMs(cs1, traversal(st.ngs.local))
    IN finalizeCurrentSources(psm, traversal(st.cs), step)

\* finalize up to the end of the loop over the synapse groups
finalizeUpToPlacement(step) ==
    LET st0 == [ngs |-> [local |-> m_LocalNeuronGroups, remote |-> m_RemoteNeuronGroups],
                sgs |-> [local |-> m_LocalSynapseGroups, remote |-> m_RemoteSynapseGroups],
                cs |-> m_LocalCurrentSources,
                params |-> kernelParameters,
                stages |-> finalizeLog.stages, merged |-> finalizeLog.merged,
                failed |-> FALSE]
        req == propagateRequirements(st0, traversal(m_LocalNeuronGroups))
        ngs == finalizeNeuronGroups(req, traversal(m_LocalNeuronGroups), step)
    IN finalizeSynapseGroups(ngs, traversal(m_LocalSynapseGroups), step)

\* the stages of finalize
finalizeStages(blk) ==
         LET syn == finalizeUpToPlacement(dt)
             end == finalizeAfterSynapseGroups(syn, dt)
             grid == stageDone(end, "grid", "model", 0)
             done == IF cpuOnly THEN grid ELSE stageDone(grid, "resetKernel", "model", 0)
         IN /\ final' = finalOnExit(syn.failed)
            /\ IF syn.failed
               THEN /\ err' = "Weight update mode variables must be initialised in same place as sparse connectivity"
                    /\ m_LocalNeuronGroups' = syn.ngs.local
                    /\ m_LocalSynapseGroups' = syn.sgs.local
                    /\ m_RemoteNeuronGroups' = syn.ngs.remote
                    /\ m_RemoteSynapseGroups' = syn.sgs.remote
                    /\ kernelParameters' = syn.params
                    /\ finalizeLog' = [stages |-> syn.stages, merged |-> syn.merged]
                    /\ UNCHANGED <<m_LocalCurrentSources, m_SynapsePostLearnGroups,
                                   m_SynapseDynamicsGroups, blkSz, resetKernel>>
               ELSE /\ err' = "none"
                    /\ m_LocalCurrentSources' = end.cs
                    /\ m_RemoteNeuronGroups' = end.ngs.remote
                    /\ m_RemoteSynapseGroups' = end.sgs.remote
                    /\ kernelParameters' = end.params
                    /\ finalizeLog' = [stages |-> done.stages, merged |-> done.merged]
                    /\ setPopulationSums(blk, end.ngs.local, end.sgs.local)
                    /\ resetKernel' =
                           IF cpuOnly THEN resetKernel
                           ELSE resetKernelOf(m_LocalSynapseGroups',
                                              m_SynapsePostLearnGroups')
            /\ UNCHANGED <<mpiEnabled, cpuOnly, GeNNReady, m_RemoteCurrentSources,
                           addOrder, settingVars>>

\* a finalize that runs its stages again on a finalized model
finalizeUnchecked(blk) == finalizeStages(blk)

finalize(blk) ==
    IF final THEN gennError("Your model has already been finalized")
    ELSE finalizeStages(blk)

\* ------------------------------------------------------------------------
\* Model registry: specifications
\* ------------------------------------------------------------------------
\* a single-host build
Init ==
    /\ SparseIdle
    /\ RaggedIdle
    /\ ImportIdle
    /\ mpiEnabled = FALSE
    /\ cpuOnly = FALSE
    /\ ModelConstructed
    /\ resetKernel = "indeterminate"

Next ==
    \/ initGeNN /\ UNCHANGED <<sparseVars, raggedVars, importVars>>
    \/ \E name \in NeuronNames, size \in Sizes, hostID \in HostIDs :
          addNeuronPopulation(name, size, hostID) /\ UNCHANGED <<sparseVars, raggedVars, importVars>>
    \/ \E name \in SynapseNames, src \in NeuronNames, trg \in NeuronNames, wu \in WUModels :
          addSynapsePopulation(name, src, trg, wu, UninitialisedInit)
          /\ UNCHANGED <<sparseVars, raggedVars, importVars>>
    \/ \E name \in CurrentSourceNames, trg \in NeuronNames :
          addCurrentSource(name, trg) /\ UNCHANGED <<sparseVars, raggedVars, importVars>>
    \/ \E blk \in BlkChoices :
          finalize(blk) /\ UNCHANGED <<sparseVars, raggedVars, importVars>>

Spec == Init /\ [][Next]_vars

\* a multi-host build (MPI_ENABLE), seen from the process of rank mpiHostID
InitMPI ==
    /\ SparseIdle
    /\ RaggedIdle
    /\ ImportIdle
    /\ mpiEnabled = TRUE
    /\ cpuOnly = FALSE
    /\ ModelConstructed
    /\ resetKernel = "indeterminate"

NextMPI ==
    \/ initGeNN /\ UNCHANGED <<sparseVars, raggedVars, importVars>>
    \/ \E name \in NeuronNames, hostID \in HostIDs :
          addNeuronPopulation(name, 1, hostID) /\ UNCHANGED <<sparseVars, raggedVars, importVars>>
    \/ \E name \in SynapseNames, src \in NeuronNames, trg \in NeuronNames,
          init \in {UninitialisedInit, MismatchedInit} :
          addSynapsePopulation(name, src, trg, "static", init)
          /\ UNCHANGED <<sparseVars, raggedVars, importVars>>
    \/ \E name \in CurrentSourceNames, trg \in NeuronNames :
          addCurrentSource(name, trg) /\ UNCHANGED <<sparseVars, raggedVars, importVars>>
    \/ \E b \in BlkSizes :
          finalize([neuronBlkSz |-> b, synapseBlkSz |-> b, learnBlkSz |-> b, synDynBlkSz |-> b])
          /\ UNCHANGED <<sparseVars, raggedVars, importVars>>

SpecMPI == InitMPI /\ [][NextMPI]_vars

\* the calls of a model definition, valid and not, on one neuron group, one
\* synapse group and one current source; group 2 is never added
OneBlk == [neuronBlkSz |-> 2, synapseBlkSz |-> 2, learnBlkSz |-> 2, synDynBlkSz |-> 2]

InitLifecycle ==
    /\ SparseIdle
    /\ RaggedIdle
    /\ ImportIdle
    /\ mpiEnabled = FALSE
    /\ cpuOnly = FALSE
    /\ ModelConstructed
    /\ resetKernel = "indeterminate"

NextLifecycle ==
    \/ initGeNN /\ UNCHANGED <<sparseVars, raggedVars, importVars>>
    \/ addNeuronPopulation(1, 1, 0) /\ UNCHANGED <<sparseVars, raggedVars, importVars>>
    \/ \E src \in {1, 2}, trg \in {1, 2}, init \in {UninitialisedInit, MismatchedInit} :
          addSynapsePopulation(1, src, trg, "static", init)
          /\ UNCHANGED <<sparseVars, raggedVars, importVars>>
    \/ \E trg \in {1, 2} :
          addCurrentSource(1, trg) /\ UNCHANGED <<sparseVars, raggedVars, importVars>>
    \/ finalize(OneBlk) /\ UNCHANGED <<sparseVars, raggedVars, importVars>>
    \/ \E inname \in ModelNames : setName(inname) /\ UNCHANGED <<sparseVars, raggedVars, importVars>>
    \/ \E newDT \in DTs : setDT(newDT) /\ UNCHANGED <<sparseVars, raggedVars, importVars>>
    \/ \E floattype \in FloatTypes :
          setPrecision(floattype) /\ UNCHANGED <<sparseVars, raggedVars, importVars>>
    \/ \E theTiming \in BOOLEAN :
          setTiming(theTiming) /\ UNCHANGED <<sparseVars, raggedVars, importVars>>
    \/ \E inseed \in Seeds : setSeed(inseed) /\ UNCHANGED <<sparseVars, raggedVars, importVars>>
    \/ \E type \in RNTypes : setRNType(type) /\ UNCHANGED <<sparseVars, raggedVars, importVars>>
    \/ \E maxConnP \in MaxConns :
          setMaxConn(1, maxConnP) /\ UNCHANGED <<sparseVars, raggedVars, importVars>>
    \/ setSpanTypeToPre(1) /\ UNCHANGED <<sparseVars, raggedVars, importVars>>

SpecLifecycle == InitLifecycle /\ [][NextLifecycle]_vars

\* a multi-host build where neuron group 1 is on this host and neuron group 2
\* on another; synapse group 1 is local and set up in every way, synapse
\* group 2 is local or remote and set up in one of two ways
WUVarModeLists == {<<>>, <<"HOST">>, <<"HOST", "DEVICE">>}

SynapseInits ==
    {SynapseInit(mtype, rowBuildCodeEmpty, connMode, wuVarModes) :
        mtype \in SynapseMatrixTypes, rowBuildCodeEmpty \in BOOLEAN,
        connMode \in VarInitPlaces, wuVarModes \in WUVarModeLists}

InitPlacement ==
    /\ SparseIdle
    /\ RaggedIdle
    /\ ImportIdle
    /\ mpiEnabled = TRUE
    /\ cpuOnly = FALSE
    /\ ModelConstructed
    /\ resetKernel = "indeterminate"

NextPlacement ==
    \/ initGeNN /\ UNCHANGED <<sparseVars, raggedVars, importVars>>
    \/ \E name \in {1, 2} :
          addNeuronPopulation(name, 1, name - 1) /\ UNCHANGED <<sparseVars, raggedVars, importVars>>
    \/ \E init \in SynapseInits :
          addSynapsePopulation(1, 1, 1, "static", init)
          /\ UNCHANGED <<sparseVars, raggedVars, importVars>>
    \/ \E trg \in {1, 2}, init \in {UninitialisedInit, MismatchedInit} :
          addSynapsePopulation(2, trg, trg, "static", init)
          /\ UNCHANGED <<sparseVars, raggedVars, importVars>>
    \/ finalize(OneBlk) /\ UNCHANGED <<sparseVars, raggedVars, importVars>>

SpecPlacement == InitPlacement /\ [][NextPlacement]_vars

\* a single-host build whose synapse groups are added by the legacy
\* addSynapsePopulation; neuron group 2 is never added
InitLegacy ==
    /\ SparseIdle
    /\ RaggedIdle
    /\ ImportIdle
    /\ mpiEnabled = FALSE
    /\ cpuOnly = FALSE
    /\ ModelConstructed
    /\ resetKernel = "indeterminate"

NextLegacy ==
    \/ initGeNN /\ UNCHANGED <<sparseVars, raggedVars, importVars>>
    \/ addNeuronPopulation(1, 1, 0) /\ UNCHANGED <<sparseVars, raggedVars, importVars>>
    \/ \E name \in {1, 2}, conntype \in SynapseConnTypes, gtype \in SynapseGTypes,
          trg \in {1, 2}, countsMatch \in BOOLEAN :
          addSynapsePopulationLegacy(name, conntype, gtype, 1, trg, "static", countsMatch)
          /\ UNCHANGED <<sparseVars, raggedVars, importVars>>
    \/ finalize(OneBlk) /\ UNCHANGED <<sparseVars, raggedVars, importVars>>

SpecLegacy == InitLegacy /\ [][NextLegacy]_vars

\* a multi-host build in which neuron group 1 is on this host and neuron
\* group 2 on another, and the weight update models have event code, extra
\* global parameters and parameter values of every kind
FinalizeWUModels == {"static", "learnPostDynamics"} \cup EventWUModels

FinalizeInits ==
    {WithWeightParamValues(UninitialisedInit, <<v>>) : v \in ParamValues}
    \cup {MismatchedInit}

InitFinalize ==
    /\ SparseIdle
    /\ RaggedIdle
    /\ ImportIdle
    /\ mpiEnabled = TRUE
    /\ cpuOnly = FALSE
    /\ ModelConstructed
    /\ resetKernel = "indeterminate"

NextFinalize ==
    \/ initGeNN /\ UNCHANGED <<sparseVars, raggedVars, importVars>>
    \/ \E name \in {1, 2} :
          addNeuronPopulation(name, 1, name - 1) /\ UNCHANGED <<sparseVars, raggedVars, importVars>>
    \/ \E name \in SynapseNames, src \in {1, 2}, trg \in {1, 2},
          wu \in FinalizeWUModels, init \in FinalizeInits :
          addSynapsePopulation(name, src, trg, wu, init)
          /\ UNCHANGED <<sparseVars, raggedVars, importVars>>
    \/ addCurrentSource(1, 1) /\ UNCHANGED <<sparseVars, raggedVars, importVars>>
    \/ finalize(OneBlk) /\ UNCHANGED <<sparseVars, raggedVars, importVars>>

SpecFinalize == InitFinalize /\ [][NextFinalize]_vars

\* ------------------------------------------------------------------------
\* The model-import frontend (spineml/generator main)
\* ------------------------------------------------------------------------
\* what getSynapticMatrixType yields for the connector of an input or of a
\* synapse; for a node without a supported connector the call throws
ImportMatrixTypes == {SPARSE_GLOBALG, DENSE_INDIVIDUALG, RAGGED_GLOBALG}

\* an LL:Input of a population (from population other) or an LL:Synapse of
\* one of its projections (to population other), with the name its synapse
\* population gets and its connector
ImportItems ==
    [kind : {"input", "synapse"}, other : NeuronNames, name : SynapseNames,
     mtype : ImportMatrixTypes \cup {NoMatrixType}]

ImportPopulation(name, items) == [name |-> name, items |-> items]

\* the items of one population in the order the second loop visits them: its
\* inputs, then the synapses of its projections
ImportItemLists ==
    {<<>>} \cup {<<a>> : a \in ImportItems}
    \cup {q \in {<<a, b>> : a \in ImportItems, b \in ImportItems} :
             /\ q[1].name # q[2].name
             /\ ~(q[1].kind = "synapse" /\ q[2].kind = "input")}

\* the documents: one population with up to two items, or two populations
\* with up to one item each
ImportDocs ==
    {<<ImportPopulation(n, q)>> : n \in NeuronNames, q \in ImportItemLists}
    \cup {<<ImportPopulation(n, q), ImportPopulation(m, r)>> :
             n \in NeuronNames, m \in NeuronNames,
             q \in {<<>>} \cup {<<a>> : a \in ImportItems},
             r \in {<<>>} \cup {<<a>> : a \in ImportItems}}

\* the first item at or after population i, or the end of the second loop
RECURSIVE firstItemFrom(_, _)
firstItemFrom(doc, i) ==
    IF i > Len(doc) THEN ImportAt("finalize", 0, 0, NullGroup)
    ELSE IF doc[i].items # <<>> THEN ImportAt("synapses", i, 1, NullGroup)
    ELSE firstItemFrom(doc, i + 1)

\* the item after item j of population i
itemAfter(doc, i, j) ==
    IF j < Len(doc[i].items) THEN ImportAt("synapses", i, j + 1, NullGroup)
    ELSE firstItemFrom(doc, i + 1)

\* the population after population i of the first loop
populationAfter(doc, i) ==
    IF i < Len(doc) THEN ImportAt("neurons", i + 1, 0, NullGroup)
    ELSE firstItemFrom(doc, 1)

ImportAborted == ImportAt("aborted", 0, 0, NullGroup)

\* where the frontend is after a call of the builder: a failed call may have
\* ended the run
afterCall(next) ==
    \/ importPc' = next
    \/ err' # "none" /\ importPc' = ImportAborted

logCall(call, name, mtype) ==
    importLog' = Append(importLog, <<call, name, mtype>>)

\* a setMaxConnections after every addSynapsePopulation
needsMaxConnectionsAlways(mtype) == TRUE

\* mtype & SynapseMatrixConnectivity::SPARSE
needsMaxConnections(mtype) == mtype.connectivity = "SPARSE"

\* SynapseGroup::setMaxConnections through the pointer
setMaxConnections(synapsePop, maxConnections) ==
    assignSynapseGroup(synapsePop,
                       [SynapseGroupAt(synapsePop) EXCEPT !.maxConnections = maxConnections])

ImportInitGeNN ==
    /\ importPc.phase = "start"
    /\ initGeNN
    /\ importPc' = ImportAt("setDT", 0, 0, NullGroup)
    /\ UNCHANGED <<importDoc, importLog, sparseVars, raggedVars>>

ImportSetDT ==
    /\ importPc.phase = "setDT"
    /\ \E newDT \in DTs : setDT(newDT)
    /\ importPc' = ImportAt("setName", 0, 0, NullGroup)
    /\ UNCHANGED <<importDoc, importLog, sparseVars, raggedVars>>

ImportSetName ==
    /\ importPc.phase = "setName"
    /\ setName("model")
    /\ importPc' = ImportAt("neurons", 1, 0, NullGroup)
    /\ UNCHANGED <<importDoc, importLog, sparseVars, raggedVars>>

\* one turn of the first loop
ImportAddNeuronPopulation ==
    /\ importPc.phase = "neurons"
    /\ LET population == importDoc[importPc.pop]
       IN /\ addNeuronPopulation(population.name, 1, 0)
          /\ logCall("addNeuronPopulation", population.name, NoMatrixType)
          /\ afterCall(populationAfter(importDoc, importPc.pop))
    /\ UNCHANGED <<importDoc, sparseVars, raggedVars>>

\* one turn of a loop over the inputs or the synapses in the second loop; a
\* population that findNeuronGroup does not find, or a node without a
\* supported connector, ends the run before the call
ImportAddSynapsePopulation ==
    /\ importPc.phase = "synapses"
    /\ LET population == importDoc[importPc.pop]
           item == population.items[importPc.item]
           src == IF item.kind = "input" THEN item.other ELSE population.name
           trg == IF item.kind = "input" THEN population.name ELSE item.other
       IN IF \/ findNeuronGroup(population.name) = NullGroup
             \/ findNeuronGroup(item.other) = NullGroup
             \/ item.mtype = NoMatrixType
          THEN /\ importPc' = ImportAborted
               /\ UNCHANGED <<modelVars, importLog>>
          ELSE /\ addSynapsePopulation(item.name, src, trg, "static",
                                       SynapseInit(item.mtype, TRUE, "HOST", <<"HOST">>))
               /\ logCall("addSynapsePopulation", item.name, item.mtype)
               /\ afterCall(
                      IF needsMaxConnections(item.mtype)
                      THEN ImportAt("maxConnections", importPc.pop, importPc.item,
                                    IF err' = "none"
                                    THEN Ref(partitionOf(NeuronGroupAt(findNeuronGroup(trg)).hostID),
                                             item.name)
                                    ELSE NullGroup)
                      ELSE itemAfter(importDoc, importPc.pop, importPc.item))
    /\ UNCHANGED <<importDoc, sparseVars, raggedVars>>

\* synapsePop->setMaxConnections(maxConnections); through a null pointer the
\* run ends
ImportSetMaxConnections ==
    /\ importPc.phase = "maxConnections"
    /\ LET item == importDoc[importPc.pop].items[importPc.item]
       IN IF importPc.synapsePop = NullGroup
          THEN /\ importPc' = ImportAborted
               /\ UNCHANGED <<modelVars, importLog>>
          ELSE /\ \E maxConnections \in MaxConns :
                     setMaxConnections(importPc.synapsePop, maxConnections)
               /\ logCall("setMaxConnections", item.name, item.mtype)
               /\ importPc' = itemAfter(importDoc, importPc.pop, importPc.item)
    /\ UNCHANGED <<importDoc, sparseVars, raggedVars>>

ImportFinalize ==
    /\ importPc.phase = "finalize"
    /\ finalize(OneBlk)
    /\ logCall("finalize", 0, NoMatrixType)
    /\ afterCall(ImportAt("done", 0, 0, NullGroup))
    /\ UNCHANGED <<importDoc, sparseVars, raggedVars>>

InitImport ==
    /\ SparseIdle
    /\ RaggedIdle
    /\ mpiEnabled = FALSE
    /\ cpuOnly = FALSE
    /\ ModelConstructed
    /\ resetKernel = "indeterminate"
    /\ importDoc \in ImportDocs
    /\ importPc = ImportAt("start", 0, 0, NullGroup)
    /\ importLog = <<>>

NextImport ==
    \/ ImportInitGeNN
    \/ ImportSetDT
    \/ ImportSetName
    \/ ImportAddNeuronPopulation
    \/ ImportAddSynapsePopulation
    \/ ImportSetMaxConnections
    \/ ImportFinalize

SpecImport == InitImport /\ [][NextImport]_vars

\* the values the constructor can leave in resetKernel, which it does not
\* initialise; "indeterminate" is any value that is no kernel
ResetKernels == {"calcNeurons", "calcSynapses", "learnSynapsesPost", "indeterminate"}

\* every build: with or without MPI_ENABLE, with or without CPU_ONLY
InitBuilds ==
    /\ SparseIdle
    /\ RaggedIdle
    /\ ImportIdle
    /\ mpiEnabled \in BOOLEAN
    /\ cpuOnly \in BOOLEAN
    /\ ModelConstructed
    /\ resetKernel \in ResetKernels

NextBuilds ==
    \/ initGeNN /\ UNCHANGED <<sparseVars, raggedVars, importVars>>
    \/ \E name \in {1, 2}, hostID \in HostIDs :
          addNeuronPopulation(name, 1, hostID) /\ UNCHANGED <<sparseVars, raggedVars, importVars>>
    \/ \E name \in SynapseNames, src \in {1, 2}, trg \in {1, 2},
          wu \in {"static", "learnPost"} :
          addSynapsePopulation(name, src, trg, wu, UninitialisedInit)
          /\ UNCHANGED <<sparseVars, raggedVars, importVars>>
    \/ \E trg \in {1, 2} :
          addCurrentSource(1, trg) /\ UNCHANGED <<sparseVars, raggedVars, importVars>>
    \/ finalize(OneBlk) /\ UNCHANGED <<sparseVars, raggedVars, importVars>>

SpecBuilds == InitBuilds /\ [][NextBuilds]_vars

\* ------------------------------------------------------------------------
\* Claims about the dense -> compressed-row conversion (SpecSparse)
\* ------------------------------------------------------------------------
Converted == sparsePc \in {"set", "created", "again"}

\* the synapses of row pre, as indices into ind / wuvar
RowSyns(pre) == {syn \in 0..(Len(sparseStruct.ind) - 1) :
                    /\ At(sparseStruct.indInG, pre) <= syn
                    /\ syn < At(sparseStruct.indInG, pre + 1)}

DenseAt(pre, post) == At(denseIn.tmp_gRNPN, pre * denseIn.postN + post)

\* C3: after the conversion, row pre holds a synapse with column post exactly
\* when the magnitude of dense[pre][post] exceeds the near-zero threshold, the
\* stored weight is that dense entry, and within a row the columns ascend
\* (row-major scan order).
C3_StoredIffMagnitudeExceeds ==
    Converted =>
        \A pre \in 0..(denseIn.preN - 1) :
            /\ \A post \in 0..(denseIn.postN - 1) :
                  /\ (\E syn \in RowSyns(pre) : At(sparseStruct.ind, syn) = post)
                        <=> (Abs(DenseAt(pre, post)) > asGoodAsZero)
                  /\ \A syn \in RowSyns(pre) :
                        At(sparseStruct.ind, syn) = post => At(wuvar, syn) = DenseAt(pre, post)
            /\ \A a, b \in RowSyns(pre) :
                  a < b => At(sparseStruct.ind, a) < At(sparseStruct.ind, b)

\* C4: after createSparseConnectivityFromDense, indInG[0] = 0, indInG is
\* non-decreasing over 0..preN, and connN equals indInG[preN], the number of
\* column entries written.
C4_ConnNIsRowStartEnd ==
    sparsePc = "created" =>
        /\ At(sparseStruct.indInG, 0) = 0
        /\ \A pre \in 0..(denseIn.preN - 1) :
              At(sparseStruct.indInG, pre) <= At(sparseStruct.indInG, pre + 1)
        /\ sparseStruct.connN = At(sparseStruct.indInG, denseIn.preN)
        /\ sparseStruct.connN = Len(sparseStruct.ind)

\* C7: converting the dense matrix rebuilt from the compressed-row result
\* (stored weights at their row and column, zero elsewhere) yields the same
\* indInG and ind arrays.
C7_ConversionIdempotent ==
    sparsePc = "again" =>
        /\ reconverted.indInG = sparseStruct.indInG
        /\ reconverted.ind = sparseStruct.ind

\* a second conversion ran on a result that kept some entries and dropped others
C7_Witness ==
    /\ sparsePc = "again"
    /\ Len(sparseStruct.ind) >= 1
    /\ Len(sparseStruct.ind) < denseIn.preN * denseIn.postN
    /\ \E k \in 1..Len(denseIn.tmp_gRNPN) : denseIn.tmp_gRNPN[k] < 0

\* the sampled pair agrees, within the threshold, between the dense entry
\* and the weight the compressed-row result holds for it (0 if not stored)
SampleAgrees(xy) ==
    Abs(At(denseIn.tmp_gRNPN, xy[1] * denseIn.postN + xy[2])
        - getSparseVar(wuvar, sparseStruct, xy[1], xy[2])) <= asGoodAsZero

\* C28: with the self test requested createSparseConnectivityFromDense
\* returns only if every sampled (row, col) pair agrees, within the
\* threshold, between the dense entry and the value looked up in the sparse
\* result (0 when the pair is not stored), a mismatch on a sampled pair
\* ending the run instead; without the self test it always returns.
C28_SelfTestMismatchAborts ==
    /\ sparsePc = "created" /\ selfTest.runTest =>
           \A xy \in selfTest.samples : SampleAgrees(xy)
    /\ sparsePc = "exited" => selfTest.runTest

\* ------------------------------------------------------------------------
\* Claims about the ragged utilities (SpecRagged)
\* ------------------------------------------------------------------------
\* row-major indices of the valid synapses of the forward representation
ValidSynapses ==
    UNION {{(i * C.maxRowLength) + j : j \in 0..(At(C.rowLength, i) - 1)} :
           i \in 0..(raggedIn.preN - 1)}

PaddingIndices == (0..(raggedIn.preN * C.maxRowLength - 1)) \ ValidSynapses

SynapsesTo(t) == {s \in ValidSynapses : At(C.ind, s) = t}

\* createPosttoPreArray returned and every store stayed inside remap
PostToPreDone ==
    /\ "createPosttoPreArray" \in raggedPc
    /\ "crashed" \notin raggedPc
    /\ ~raggedLog.oob

\* C2: after createPosttoPreArray every valid forward synapse's row-major
\* index is held by exactly one written remap slot, and no two synapses are
\* written to the same column-major slot.
C2_EachSynapseInOneSlot ==
    PostToPreDone =>
        /\ \A s \in ValidSynapses :
              Cardinality({k \in 0..(Len(C.remap) - 1) : At(C.remap, k) = s}) = 1
        /\ \A a, b \in 1..Len(raggedLog.writes) :
              a # b => raggedLog.writes[a][1] # raggedLog.writes[b][1]

\* C6: after createPosttoPreArray, whatever colLength held before,
\* colLength[t] is the number of valid synapses targeting t, and slot
\* t * maxColLength + k (k < colLength[t]) holds the k-th synapse targeting t
\* in row-major order.
C6_ColumnSegmentsHoldTargets ==
    PostToPreDone =>
        \A t \in 0..(raggedIn.postN - 1) :
            /\ At(C.colLength, t) = Cardinality(SynapsesTo(t))
            /\ \A k \in 0..(At(C.colLength, t) - 1) :
                  LET s == At(C.remap, (t * C.maxColLength) + k)
                  IN /\ s \in SynapsesTo(t)
                     /\ Cardinality({u \in SynapsesTo(t) : u < s}) = k

\* C29: createPosttoPreArray stays inside each target's column segment:
\* once it ran, colLength[t] <= maxColLength for every target t, and every
\* remap slot it stored to for a synapse onto target t lies in
\* [t * maxColLength, (t + 1) * maxColLength), whatever the forward ragged
\* representation is.
C29_StoresStayInColumnSegment ==
    "createPosttoPreArray" \in raggedPc =>
        /\ \A t \in 0..(raggedIn.postN - 1) : At(C.colLength, t) <= C.maxColLength
        /\ \A a \in 1..Len(raggedLog.writes) :
              LET t == At(C.ind, raggedLog.writes[a][2])
              IN /\ t * C.maxColLength <= raggedLog.writes[a][1]
                 /\ raggedLog.writes[a][1] < (t + 1) * C.maxColLength

\* C5: after createPreIndices, synRemap[0] is the sum of rowLength, and slots
\* 1..synRemap[0] hold exactly the row-major indices of the valid synapses,
\* strictly increasing, with no padding index among them.
C5_SynRemapListsValidSynapses ==
    "createPreIndices" \in raggedPc =>
        /\ At(C.synRemap, 0) = SumSeq(C.rowLength)
        /\ Len(C.synRemap) = At(C.synRemap, 0) + 1
        /\ {At(C.synRemap, k) : k \in 1..At(C.synRemap, 0)} = ValidSynapses
        /\ \A k \in 1..(At(C.synRemap, 0) - 1) : At(C.synRemap, k) < At(C.synRemap, k + 1)
        /\ \A k \in 1..At(C.synRemap, 0) : At(C.synRemap, k) \notin PaddingIndices

\* createPreIndices ran on rows of which an earlier one has padding
C5_Witness ==
    /\ "createPreIndices" \in raggedPc
    /\ raggedIn.preN >= 2
    /\ At(C.rowLength, 0) < C.maxRowLength
    /\ At(C.rowLength, 1) >= 1
    /\ At(C.synRemap, 0) >= 2

\* ------------------------------------------------------------------------
\* Claims about the kernel grids (Spec, SpecMPI)
\* ------------------------------------------------------------------------
Grids == {"neuron", "synapse", "postLearn", "dynamics"}

\* finalize ran to its end
Finalized == final /\ blkSz # NoBlk

\* the names of the groups of a grid
GridMembers(k) ==
    CASE k = "neuron" -> DOMAIN m_LocalNeuronGroups
      [] k = "synapse" -> DOMAIN m_LocalSynapseGroups
      [] k = "postLearn" -> DOMAIN m_SynapsePostLearnGroups
      [] k = "dynamics" -> DOMAIN m_SynapseDynamicsGroups

GridRange(k, name) ==
    CASE k = "neuron" -> m_LocalNeuronGroups[name].paddedIDRange
      [] k = "synapse" -> m_LocalSynapseGroups[name].paddedKernelIDRange
      [] k = "postLearn" -> m_SynapsePostLearnGroups[name]
      [] k = "dynamics" -> m_SynapseDynamicsGroups[name]

GridTrueSize(k, name) ==
    CASE k = "neuron" -> m_LocalNeuronGroups[name].size
      [] k = "synapse" -> synapseKernelSize(m_LocalSynapseGroups[name])
      [] k = "postLearn" -> postLearnKernelSize(m_LocalSynapseGroups[name])
      [] k = "dynamics" -> dynKernelSize(m_LocalSynapseGroups[name])

GridBlk(k) ==
    CASE k = "neuron" -> blkSz.neuronBlkSz
      [] k = "synapse" -> blkSz.synapseBlkSz
      [] k = "postLearn" -> blkSz.learnBlkSz
      [] k = "dynamics" -> blkSz.synDynBlkSz

GridSize(k) ==
    CASE k = "neuron" -> getNeuronGridSize
      [] k = "synapse" -> getSynapseKernelGridSize
      [] k = "postLearn" -> getSynapsePostLearnGridSize
      [] k = "dynamics" -> getSynapseDynamicsGridSize

GridLength(k, name) == GridRange(k, name)[2] - GridRange(k, name)[1]

\* the kind of entity the groups of a grid are
GridKind(k) == IF k = "neuron" THEN "neuron" ELSE "synapse"

\* C1: after finalize, in each of the four kernel grids, with the groups
\* taken in traversal order: the first range starts at 0, each later range
\* starts at the end of the one before, no two ranges overlap, and the length
\* of each range is a multiple of the block size and at least the true size
C1_RangesContiguousAndPadded ==
    Finalized =>
        \A k \in Grids :
            LET order == Ascending(GridMembers(k))
            IN /\ order # <<>> => GridRange(k, order[1])[1] = 0
               /\ \A i \in 2..Len(order) :
                      GridRange(k, order[i])[1] = GridRange(k, order[i - 1])[2]
               /\ \A x, y \in GridMembers(k) :
                      x # y => \/ GridRange(k, x)[2] <= GridRange(k, y)[1]
                               \/ GridRange(k, y)[2] <= GridRange(k, x)[1]
               /\ \A x \in GridMembers(k) :
                      /\ GridLength(k, x) % GridBlk(k) = 0
                      /\ GridLength(k, x) >= GridTrueSize(k, x)

\* two groups with postsynaptic learning got their ranges, and one range is
\* longer than the true size of its group
C1_Witness ==
    /\ Finalized
    /\ Cardinality(DOMAIN m_SynapsePostLearnGroups) = 2
    /\ \E x \in DOMAIN m_SynapsePostLearnGroups :
           /\ GridRange("postLearn", x)[1] > 0
           /\ GridLength("postLearn", x) > GridTrueSize("postLearn", x)

\* the groups of m_LocalSynapseGroups whose weight-update model has
\* postsynaptic-learning code, and those with synapse-dynamics code
WithLearnPostCode ==
    {x \in DOMAIN m_LocalSynapseGroups :
        m_LocalSynapseGroups[x].wu \in {"learnPost", "learnPostDynamics"}}

WithDynamicsCode ==
    {x \in DOMAIN m_LocalSynapseGroups :
        m_LocalSynapseGroups[x].wu \in {"dynamics", "learnPostDynamics"}}

\* the ranges of the groups S of grid k, taken in traversal order, start at 0
\* and follow one another without a gap
Contiguous(k, S) ==
    LET order == Ascending(S)
    IN \A i \in 1..Len(order) :
           GridRange(k, order[i])[1] =
               IF i = 1 THEN 0 ELSE GridRange(k, order[i - 1])[2]

\* C27: after finalize a local synapse group has a range in the
\* postsynaptic-learning grid exactly when its learn-post code is non-empty,
\* and a range in the synapse-dynamics grid exactly when its synapse-dynamics
\* code is non-empty, independently of one another;
\* isSynapseGroupPostLearningRequired and isSynapseGroupDynamicsRequired
\* report exactly this; a group absent from a grid leaves no gap between the
\* ranges of the groups that are in it.
C27_GridsPerKernelKind ==
    Finalized =>
        /\ DOMAIN m_SynapsePostLearnGroups = WithLearnPostCode
        /\ DOMAIN m_SynapseDynamicsGroups = WithDynamicsCode
        /\ \A x \in DOMAIN m_LocalSynapseGroups :
              /\ isSynapseGroupPostLearningRequired(x) <=> x \in WithLearnPostCode
              /\ isSynapseGroupDynamicsRequired(x) <=> x \in WithDynamicsCode
        /\ Contiguous("postLearn", WithLearnPostCode)
        /\ Contiguous("dynamics", WithDynamicsCode)

\* the first synapse group is in neither grid, the second is in the dynamics
\* grid only, and its range there starts at 0
C27_Witness ==
    /\ Finalized
    /\ \E x, y \in DOMAIN m_LocalSynapseGroups :
           /\ x < y
           /\ m_LocalSynapseGroups[x].wu = "static"
           /\ m_LocalSynapseGroups[y].wu = "dynamics"
           /\ ~isSynapseGroupDynamicsRequired(x)
           /\ isSynapseGroupDynamicsRequired(y)
           /\ ~isSynapseGroupPostLearningRequired(y)
           /\ GridRange("dynamics", y)[1] = 0
           /\ GridLength("dynamics", y) > 0

\* the position of the successful add of a local group in the build order
AddedAt(k, name) ==
    CHOOSE i \in 1..Len(addOrder) : addOrder[i] = <<GridKind(k), "local", name>>

\* C8 as stated: after finalize, a local group added before another group of
\* the same grid has its range before the range of that group
C8_InsertionOrderIsTraversalOrder ==
    Finalized =>
        \A k \in Grids : \A x, y \in GridMembers(k) :
            AddedAt(k, x) < AddedAt(k, y) => GridRange(k, x)[2] <= GridRange(k, y)[1]

\* C8 amended: after finalize, a local group whose name sorts before the name
\* of another group of the same grid has its range before the range of that
\* group, in whatever order the two were added
C8_NameOrderIsTraversalOrder ==
    Finalized =>
        \A k \in Grids : \A x, y \in GridMembers(k) :
            x < y => GridRange(k, x)[2] <= GridRange(k, y)[1]

\* two groups of one grid were added in the opposite of their name order
C8_Witness ==
    /\ Finalized
    /\ \E k \in Grids : \E x, y \in GridMembers(k) :
           /\ x < y
           /\ AddedAt(k, y) < AddedAt(k, x)
           /\ GridLength(k, x) > 0
           /\ GridLength(k, y) > 0

\* the largest range end of a grid
GridMaxEnd(k) ==
    IF GridMembers(k) = {} THEN 0
    ELSE MaxOf({GridRange(k, x)[2] : x \in GridMembers(k)})

RECURSIVE GridPaddedSum(_, _)
GridPaddedSum(k, names) ==
    IF names = {} THEN 0
    ELSE LET x == CHOOSE n \in names : TRUE
         IN GridLength(k, x) + GridPaddedSum(k, names \ {x})

\* C9: after finalize the launch size reported for each kernel grid is the
\* largest range end among the groups of the grid, which is the sum of their
\* padded sizes and a multiple of the block size; it is 0 for an empty grid
C9_GridSizeIsLargestEnd ==
    Finalized =>
        \A k \in Grids :
            /\ GridSize(k) = GridMaxEnd(k)
            /\ GridSize(k) = GridPaddedSum(k, GridMembers(k))
            /\ GridSize(k) % GridBlk(k) = 0
            /\ GridMembers(k) = {} => GridSize(k) = 0

\* one grid has two groups and another one is empty
C9_Witness ==
    /\ Finalized
    /\ Cardinality(DOMAIN m_LocalNeuronGroups) = 2
    /\ getNeuronGridSize > m_LocalNeuronGroups[1].paddedIDRange[2]
    /\ DOMAIN m_SynapsePostLearnGroups = {}
    /\ getSynapsePostLearnGridSize = 0

\* ------------------------------------------------------------------------
\* Claims about the names of the registry (Spec, SpecMPI)
\* ------------------------------------------------------------------------
CurrentSourceKnown(name) ==
    name \in DOMAIN m_LocalCurrentSources \/ name \in DOMAIN m_RemoteCurrentSources

\* the call failed and left every entity and every attachment as it was
FailedAndKept == err' # "none" /\ UNCHANGED groupVars

\* C10: an add of a neuron group, synapse group or current source under a
\* name that an entity of the same kind already has fails, and the entities
\* and their attachments to neuron groups stay exactly as they were
C10_DuplicateNameFails ==
    [][/\ \A name \in NeuronNames, size \in Sizes, hostID \in HostIDs :
              NeuronGroupKnown(name) /\ addNeuronPopulation(name, size, hostID)
                  => FailedAndKept
       /\ \A name \in SynapseNames, src \in NeuronNames, trg \in NeuronNames,
             wu \in WUModels, init \in {UninitialisedInit, MismatchedInit} :
              SynapseGroupKnown(name)
                  /\ addSynapsePopulation(name, src, trg, wu, init)
                  => FailedAndKept
       /\ \A name \in CurrentSourceNames, trg \in NeuronNames :
              CurrentSourceKnown(name) /\ addCurrentSource(name, trg)
                  => FailedAndKept]_vars

\* ------------------------------------------------------------------------
\* Claims about the life cycle of the model (SpecLifecycle)
\* ------------------------------------------------------------------------
\* the arguments an add call is given here
NeuronArgNames == {1, 2}

SynapseArgInits == {UninitialisedInit, MismatchedInit}

SynapseArgModels == {"static"}

\* some add call, whatever its arguments
AddCall ==
    \/ \E name \in NeuronArgNames, size \in Sizes, hostID \in HostIDs :
           addNeuronPopulation(name, size, hostID)
    \/ \E name \in SynapseNames, src \in NeuronArgNames, trg \in NeuronArgNames,
          wu \in SynapseArgModels, init \in SynapseArgInits :
           addSynapsePopulation(name, src, trg, wu, init)
    \/ \E name \in CurrentSourceNames, trg \in NeuronArgNames :
           addCurrentSource(name, trg)

\* C11: once finalize has been called, every later addNeuronPopulation,
\* addSynapsePopulation and addCurrentSource call fails whatever its
\* arguments, and no entity enters either partition
\* (stated by contraposition: no step of a finalized model that succeeds or
\* alters the entities is an add call)
C11_AddAfterFinalizeFails ==
    [][final /\ ~FailedAndKept => ~AddCall]_vars

\* an add call has been refused on a finalized model that holds entities
C11_Witness ==
    /\ final
    /\ err = "Trying to add a synapse population to a finalized model."
    /\ DOMAIN m_LocalNeuronGroups # {}

\* everything a call can change other than the error it reports
modelKept ==
    UNCHANGED <<mpiEnabled, cpuOnly, GeNNReady, final, groupVars, gridVars,
                settingVars, resetKernel>>

\* C12: finalize is one-way: the first finalize makes the model Finalized,
\* no operation makes it Building again, and every later finalize fails
\* without running any finalization stage again
C12_FinalizeIsOneWay ==
    [][/\ final => final'
       /\ \A blk \in BlkChoices :
              finalize(blk) => /\ final'
                               /\ final => err' # "none" /\ modelKept]_vars

\* a second finalize has been refused on a model the first one completed
C12_Witness ==
    /\ Finalized
    /\ err = "Your model has already been finalized"
    /\ \E name \in DOMAIN m_LocalNeuronGroups :
           Len(m_LocalNeuronGroups[name].derivedParams) = 1

\* a mutator call failed and left every setting, of the model and of its
\* synapse groups, as it was
MutatorRefused == err' # "none" /\ UNCHANGED <<settingVars, groupVars>>

\* the type name the spec gives each floating-point precision
PrecisionName(floattype) ==
    CASE floattype = "GENN_FLOAT" -> "float"
      [] floattype = "GENN_DOUBLE" -> "double"
      [] floattype = "GENN_LONG_DOUBLE" -> "long double"
      [] OTHER -> "unrecognised"

\* the synapse group of that name, after the step
SynapseGroupAfter(sname) ==
    IF sname \in DOMAIN m_LocalSynapseGroups' THEN m_LocalSynapseGroups'[sname]
    ELSE m_RemoteSynapseGroups'[sname]

\* setDT, setSeed, setName, setTiming and setRNType take effect while
\* Building and are refused after finalize
ModelSettersObeyLifecycle ==
    /\ \A newDT \in DTs :
           setDT(newDT) =>
               IF final THEN MutatorRefused ELSE err' = "none" /\ dt' = newDT
    /\ \A inseed \in Seeds :
           setSeed(inseed) =>
               IF final THEN MutatorRefused ELSE err' = "none" /\ seed' = inseed
    /\ \A inname \in ModelNames :
           setName(inname) =>
               IF final THEN MutatorRefused ELSE err' = "none" /\ modelName' = inname
    /\ \A theTiming \in BOOLEAN :
           setTiming(theTiming) =>
               IF final THEN MutatorRefused ELSE err' = "none" /\ timing' = theTiming
    /\ \A type \in RNTypes :
           setRNType(type) =>
               IF final THEN MutatorRefused ELSE err' = "none" /\ RNtype' = type

PrecisionSet(floattype) == err' = "none" /\ ftype' = PrecisionName(floattype)

MaxConnSet(sname, maxConnP) ==
    /\ err' = "none"
    /\ SynapseGroupKnown(sname)
    /\ SynapseGroupAfter(sname).maxConnections = maxConnP

SpanTypeSetToPre(sname) ==
    /\ err' = "none"
    /\ SynapseGroupKnown(sname)
    /\ SynapseGroupAfter(sname).spanType = "PRESYNAPTIC"

\* C13 (as stated): each of the eight mutators succeeds and takes effect
\* whenever the model is Building, whatever has been added so far, and fails
\* leaving the settings unchanged after finalize
C13_MutatorsSucceedWhileBuilding ==
    [][/\ ModelSettersObeyLifecycle
       /\ \A floattype \in FloatTypes :
              setPrecision(floattype) =>
                  IF final THEN MutatorRefused ELSE PrecisionSet(floattype)
       /\ \A sname \in SynapseNames, maxConnP \in MaxConns :
              setMaxConn(sname, maxConnP) =>
                  IF final THEN MutatorRefused ELSE MaxConnSet(sname, maxConnP)
       /\ \A sname \in SynapseNames :
              setSpanTypeToPre(sname) =>
                  IF final THEN MutatorRefused ELSE SpanTypeSetToPre(sname)]_vars

\* C13 (amended): while Building, setDT, setSeed, setName, setTiming and
\* setRNType always succeed and take effect, setPrecision does so for a
\* recognised precision, and setMaxConn and setSpanTypeToPre do so once the
\* synapse group they name has been added; a setPrecision with an
\* unrecognised precision, a synapse setter naming a group not yet added and
\* every mutator call after finalize fail and leave the settings unchanged
C13_MutatorsSucceedOnKnownGroups ==
    [][/\ ModelSettersObeyLifecycle
       /\ \A floattype \in FloatTypes :
              setPrecision(floattype) =>
                  IF ~final /\ floattype # "unrecognised"
                  THEN PrecisionSet(floattype) ELSE MutatorRefused
       /\ \A sname \in SynapseNames, maxConnP \in MaxConns :
              setMaxConn(sname, maxConnP) =>
                  IF ~final /\ SynapseGroupKnown(sname)
                  THEN MaxConnSet(sname, maxConnP) ELSE MutatorRefused
       /\ \A sname \in SynapseNames :
              setSpanTypeToPre(sname) =>
                  IF ~final /\ SynapseGroupKnown(sname)
                  THEN SpanTypeSetToPre(sname) ELSE MutatorRefused]_vars

\* settings made while Building are still in force after a mutator call was
\* refused on the finalized model
C13_Witness ==
    /\ final
    /\ err = "Trying to set DT in a finalized model."
    /\ dt = "1.0"
    /\ ftype = "double"
    /\ \E sname \in DOMAIN m_LocalSynapseGroups :
           /\ m_LocalSynapseGroups[sname].maxConnections = 2
           /\ m_LocalSynapseGroups[sname].spanType = "PRESYNAPTIC"

\* the error of the placement validation of finalize
PlacementError ==
    "Weight update mode variables must be initialised in same place as sparse connectivity"

\* finalize was called and stopped at the placement validation: the model is
\* final but no kernel grid was laid out
PlacementFailed == final /\ ~Finalized

\* some mutator call, whatever its arguments
MutatorCall ==
    \/ \E inname \in ModelNames : setName(inname)
    \/ \E newDT \in DTs : setDT(newDT)
    \/ \E floattype \in FloatTypes : setPrecision(floattype)
    \/ \E theTiming \in BOOLEAN : setTiming(theTiming)
    \/ \E inseed \in Seeds : setSeed(inseed)
    \/ \E type \in RNTypes : setRNType(type)
    \/ \E sname \in SynapseNames, maxConnP \in MaxConns : setMaxConn(sname, maxConnP)
    \/ \E sname \in SynapseNames : setSpanTypeToPre(sname)

\* C14: a finalize that fails at the placement validation leaves the model
\* final; from then on the model stays final, and no finalize, add or
\* mutator call succeeds
C14_FailedFinalizeLeavesModelUnusable ==
    [][/\ \A blk \in BlkChoices :
              finalize(blk) /\ err' = PlacementError => final'
       /\ PlacementFailed =>
              /\ PlacementFailed'
              /\ err' = "none" =>
                     ~(AddCall \/ MutatorCall \/ \E blk \in BlkChoices : finalize(blk))]_vars

\* a mutator call has been refused after finalize stopped at the placement
\* validation
C14_Witness ==
    /\ PlacementFailed
    /\ err = "Trying to set DT in a finalized model."
    /\ \E name \in DOMAIN m_LocalSynapseGroups : varModeMismatch(m_LocalSynapseGroups[name])

\* ------------------------------------------------------------------------
\* Claims about the placement validation (SpecPlacement)
\* ------------------------------------------------------------------------
\* some weight update variable is initialised on the other side (host or
\* device) than the connectivity
PlacementDiffers(sg) ==
    \E k \in 1..Len(sg.wuVarModes) : sg.wuVarModes[k] # sg.sparseConnectivityVarMode

\* individual weight variables, row build code and a placement that differs
IndividualRowBuiltMisplaced(sg) ==
    /\ sg.matrixType.weight = "INDIVIDUAL"
    /\ ~sg.rowBuildCodeEmpty
    /\ PlacementDiffers(sg)

RaggedOrBitmask(sg) == sg.matrixType.connectivity \in {"RAGGED", "BITMASK"}

\* C15 (as stated): a finalize of a Building model fails with the placement
\* error exactly when some local synapse group has individual weight
\* variables, row build code and a weight variable placed differently from
\* the connectivity; otherwise the stage passes
C15_PlacementErrorIffMisplaced ==
    [][\A blk \in BlkChoices :
          ~final /\ finalize(blk) =>
              /\ err' = PlacementError <=>
                     \E name \in DOMAIN m_LocalSynapseGroups :
                         IndividualRowBuiltMisplaced(m_LocalSynapseGroups[name])
              /\ err' \in {PlacementError, "none"}]_vars

\* C15 (amended): a finalize of a Building model fails with the placement
\* error exactly when some local synapse group with ragged or bitmask
\* connectivity has individual weight variables, row build code and a weight
\* variable placed differently from the connectivity; otherwise, and so for
\* every group with dense or sparse connectivity, the stage passes
C15_PlacementErrorIffRaggedMisplaced ==
    [][\A blk \in BlkChoices :
          ~final /\ finalize(blk) =>
              /\ err' = PlacementError <=>
                     \E name \in DOMAIN m_LocalSynapseGroups :
                         /\ RaggedOrBitmask(m_LocalSynapseGroups[name])
                         /\ IndividualRowBuiltMisplaced(m_LocalSynapseGroups[name])
              /\ err' \in {PlacementError, "none"}]_vars

\* finalize has stopped at the placement validation of a local ragged group
\* while a remote group set up the same way was not looked at
C15_Witness ==
    /\ PlacementFailed
    /\ err = PlacementError
    /\ \E name \in DOMAIN m_LocalSynapseGroups :
           /\ RaggedOrBitmask(m_LocalSynapseGroups[name])
           /\ IndividualRowBuiltMisplaced(m_LocalSynapseGroups[name])

\* ------------------------------------------------------------------------
\* Claims about references to neuron groups (SpecLifecycle)
\* ------------------------------------------------------------------------
\* the name is that of a neuron group added earlier, local or remote
AddedEarlier(name) ==
    \E k \in 1..Len(addOrder) : addOrder[k][1] = "neuron" /\ addOrder[k][3] = name

\* C16: an addSynapsePopulation whose source or target name, or an
\* addCurrentSource whose target name, is not that of a neuron group added
\* earlier fails, inserts no entity and attaches nothing to any neuron group
\* (stated by contraposition: a step that succeeds or alters the entities is
\* no such call)
C16_UnknownNeuronGroupFails ==
    [][~FailedAndKept =>
          /\ \A src \in NeuronArgNames, trg \in NeuronArgNames :
                 ~AddedEarlier(src) \/ ~AddedEarlier(trg) =>
                     \A name \in SynapseNames, wu \in SynapseArgModels,
                        init \in SynapseArgInits :
                         ~addSynapsePopulation(name, src, trg, wu, init)
          /\ \A name \in CurrentSourceNames, trg \in NeuronArgNames :
                 ~AddedEarlier(trg) => ~addCurrentSource(name, trg)]_vars

\* with one neuron group added, an add naming a neuron group that was never
\* added has been refused
C16_Witness ==
    /\ GeNNReady
    /\ ~final
    /\ err = "neuron group not found, aborting ..."
    /\ DOMAIN m_LocalNeuronGroups = {1}
    /\ m_LocalNeuronGroups[1].outSyn = <<>> /\ m_LocalNeuronGroups[1].inSyn = <<>>

\* ------------------------------------------------------------------------
\* Claims about the legacy addSynapsePopulation (SpecLegacy)
\* ------------------------------------------------------------------------
\* the pairs of connectivity and conductance type that have a matrix type
LegacyMapped(conntype, gtype) ==
    \/ conntype = "SPARSE" /\ gtype \in {"GLOBALG", "INDIVIDUALG"}
    \/ conntype \in {"DENSE", "ALLTOALL"} /\ gtype \in {"GLOBALG", "INDIVIDUALG"}
    \/ gtype = "INDIVIDUALID"

\* the matrix type of a pair that has one
LegacyMapping(conntype, gtype) ==
    CASE gtype = "INDIVIDUALID" -> BITMASK_GLOBALG
      [] conntype = "SPARSE" /\ gtype = "GLOBALG" -> SPARSE_GLOBALG
      [] conntype = "SPARSE" /\ gtype = "INDIVIDUALG" -> SPARSE_INDIVIDUALG
      [] conntype \in {"DENSE", "ALLTOALL"} /\ gtype = "INDIVIDUALG" -> DENSE_INDIVIDUALG
      [] conntype \in {"DENSE", "ALLTOALL"} /\ gtype = "GLOBALG" -> DENSE_GLOBALG

\* what the mapping asks of a step that is a legacy add of these types
LegacyOutcome(name, conntype, gtype, countsMatch) ==
    IF LegacyMapped(conntype, gtype)
    THEN err' = "none" =>
             /\ name \in DOMAIN m_LocalSynapseGroups' \cup DOMAIN m_RemoteSynapseGroups'
             /\ SynapseGroupAfter(name).matrixType = LegacyMapping(conntype, gtype)
    ELSE /\ FailedAndKept
         /\ GeNNReady /\ ~final /\ countsMatch =>
                err' = "Combination of connection type and weight type not supported"

\* C17: a legacy addSynapsePopulation that succeeds gives the new group the
\* matrix type LegacyMapping holds for its connectivity and conductance
\* type; for a pair with no mapping the call fails and inserts nothing, and
\* when nothing else is wrong with the call the failure is the
\* unsupported-combination error
C17_LegacyMatrixTypeMapping ==
    [][\A name \in SynapseNames, conntype \in SynapseConnTypes,
         gtype \in SynapseGTypes, countsMatch \in BOOLEAN :
          \/ LegacyOutcome(name, conntype, gtype, countsMatch)
          \/ \A src \in NeuronArgNames, trg \in NeuronArgNames :
                 ~addSynapsePopulationLegacy(name, conntype, gtype, src, trg,
                                             "static", countsMatch)]_vars

\* a legacy add has made a bitmask group, and a later one was refused for
\* its pair of types
C17_Witness ==
    /\ 2 \in DOMAIN m_LocalSynapseGroups
    /\ m_LocalSynapseGroups[2].matrixType = BITMASK_GLOBALG
    /\ err = "Combination of connection type and weight type not supported"

\* ------------------------------------------------------------------------
\* Claims about the partitions and the finalization stages (SpecBuilds)
\* ------------------------------------------------------------------------
\* the names the step inserts into a map
AddedTo(before, after) == DOMAIN after \ DOMAIN before

\* the host id is that of this host
OnThisHost(hostID) == hostID = mpiHostID

\* the host id of the neuron group an entity targets
TargetHostID(entity) ==
    IF entity.trg.part = "local" THEN m_LocalNeuronGroups[entity.trg.name].hostID
    ELSE m_RemoteNeuronGroups[entity.trg.name].hostID

\* what the step adds to the local and to the remote map goes by the host
\* id of its target; a single-host build adds to the local map only
PlacedByTarget(local, localAfter, remote, remoteAfter) ==
    /\ \A name \in AddedTo(local, localAfter) :
           mpiEnabled => OnThisHost(TargetHostID(localAfter[name]))
    /\ \A name \in AddedTo(remote, remoteAfter) :
           mpiEnabled /\ ~OnThisHost(TargetHostID(remoteAfter[name]))

\* every entity of the map is still in it, with the target it had
Stays(before, after) ==
    \A name \in DOMAIN before :
        name \in DOMAIN after /\ after[name].trg = before[name].trg

\* C18: a successful add puts a neuron group into the local partition
\* exactly when its declared host id is that of this host, and a synapse
\* group or current source exactly when the host id of its target neuron
\* group is; in a single-host build every entity goes to the local
\* partition; no step takes an entity out of its partition
C18_PartitionByHostID ==
    [][/\ \A name \in NeuronArgNames, size \in Sizes, hostID \in HostIDs :
              err' = "none" /\ addNeuronPopulation(name, size, hostID) =>
                  IF ~mpiEnabled \/ OnThisHost(hostID)
                  THEN /\ AddedTo(m_LocalNeuronGroups, m_LocalNeuronGroups') = {name}
                       /\ AddedTo(m_RemoteNeuronGroups, m_RemoteNeuronGroups') = {}
                  ELSE /\ AddedTo(m_RemoteNeuronGroups, m_RemoteNeuronGroups') = {name}
                       /\ AddedTo(m_LocalNeuronGroups, m_LocalNeuronGroups') = {}
       /\ PlacedByTarget(m_LocalSynapseGroups, m_LocalSynapseGroups',
                         m_RemoteSynapseGroups, m_RemoteSynapseGroups')
       /\ PlacedByTarget(m_LocalCurrentSources, m_LocalCurrentSources',
                         m_RemoteCurrentSources, m_RemoteCurrentSources')
       /\ DOMAIN m_LocalNeuronGroups \subseteq DOMAIN m_LocalNeuronGroups'
       /\ DOMAIN m_RemoteNeuronGroups \subseteq DOMAIN m_RemoteNeuronGroups'
       /\ Stays(m_LocalSynapseGroups, m_LocalSynapseGroups')
       /\ Stays(m_RemoteSynapseGroups, m_RemoteSynapseGroups')
       /\ Stays(m_LocalCurrentSources, m_LocalCurrentSources')
       /\ Stays(m_RemoteCurrentSources, m_RemoteCurrentSources')]_vars

\* a multi-host build was finalized with a neuron group and a synapse group
\* in the remote partition and a neuron group in the local one
C18_Witness ==
    /\ mpiEnabled
    /\ final
    /\ DOMAIN m_RemoteNeuronGroups # {}
    /\ DOMAIN m_RemoteSynapseGroups # {}
    /\ DOMAIN m_LocalNeuronGroups # {}

\* the kernel the spec names for a finalized model
SelectedResetKernel ==
    IF DOMAIN m_LocalSynapseGroups = {} THEN "calcNeurons"
    ELSE IF \E name \in DOMAIN m_LocalSynapseGroups :
                ~learnPostCodeEmpty(m_LocalSynapseGroups[name].wu)
    THEN "learnSynapsesPost"
    ELSE "calcSynapses"

\* C19 (as stated): after a successful finalize the reset kernel is
\* calcNeurons if there is no local synapse group, else learnSynapsesPost if
\* some synapse group needs postsynaptic learning, else calcSynapses
C19_ResetKernelSelected ==
    Finalized => resetKernel = SelectedResetKernel

\* C19 (amended): the same, in a build without CPU_ONLY
C19_ResetKernelSelectedOnGPUBuild ==
    Finalized /\ ~cpuOnly => resetKernel = SelectedResetKernel

\* a GPU build was finalized with a local synapse group that learns
\* postsynaptically
C19_Witness ==
    /\ Finalized
    /\ ~cpuOnly
    /\ resetKernel = "learnSynapsesPost"
    /\ \E name \in DOMAIN m_LocalSynapseGroups :
           ~learnPostCodeEmpty(m_LocalSynapseGroups[name].wu)

\* ------------------------------------------------------------------------
\* Claims about the derived parameters (SpecLifecycle)
\* ------------------------------------------------------------------------
\* derived parameters were resolved exactly once in every group of the map,
\* with the time step of the model
ResolvedOnce(groups) ==
    \A name \in DOMAIN groups : groups[name].derivedParams = <<dt>>

\* C20: in a model that finalize has completed, the derived parameters of
\* every local neuron group, synapse group and current source were resolved
\* exactly once, with the time step the last setDT before finalize set (0.5
\* when there was none); no later call changes dt
C20_DerivedParamsResolvedOnce ==
    Finalized =>
        /\ ResolvedOnce(m_LocalNeuronGroups)
        /\ ResolvedOnce(m_LocalSynapseGroups)
        /\ ResolvedOnce(m_LocalCurrentSources)

\* ------------------------------------------------------------------------
\* Claims about readiness (SpecLifecycle)
\* ------------------------------------------------------------------------
\* the call was refused for want of initGeNN and inserted nothing
RefusedNotReady ==
    err' = "You need to call initGeNN first." /\ UNCHANGED groupVars

\* C21: while initGeNN has not been called every add call fails with the
\* call-before-init error, also on a finalized model (the readiness test
\* comes first), and inserts nothing; no step clears GeNNReady
\* (the first part by contraposition: a step of a model that is not ready
\* and that is not such a refusal is no add call)
C21_AddBeforeInitFails ==
    [][/\ GeNNReady => GeNNReady'
       /\ ~GeNNReady /\ ~RefusedNotReady => ~AddCall]_vars

\* an add call has been refused for want of initGeNN on a model that was
\* finalized before
C21_Witness ==
    /\ ~GeNNReady
    /\ final
    /\ err = "You need to call initGeNN first."

\* ------------------------------------------------------------------------
\* Claims about names across the partitions (SpecMPI)
\* ------------------------------------------------------------------------
\* C30: in a multi-host build no neuron group, synapse group or current
\* source name is in both the local and the remote partition
C30_NameInOnePartition ==
    /\ DOMAIN m_LocalNeuronGroups \cap DOMAIN m_RemoteNeuronGroups = {}
    /\ DOMAIN m_LocalSynapseGroups \cap DOMAIN m_RemoteSynapseGroups = {}
    /\ DOMAIN m_LocalCurrentSources \cap DOMAIN m_RemoteCurrentSources = {}

\* ------------------------------------------------------------------------
\* Claims about the stages of finalize (SpecFinalize)
\* ------------------------------------------------------------------------
AllSynapseGroups == [local |-> m_LocalSynapseGroups, remote |-> m_RemoteSynapseGroups]

\* the outgoing synapse groups of a neuron group, as a set of references
OutSynOf(ng) == {ng.outSyn[i] : i \in 1..Len(ng.outSyn)}

\* the outgoing synapse groups of a neuron group that have event code
EventOutSynOf(ng) ==
    {ref \in OutSynOf(ng) : Deref(AllSynapseGroups, ref).wu \in EventWUModels}

NeuronGroupRecords ==
    {m_LocalNeuronGroups[n] : n \in DOMAIN m_LocalNeuronGroups}
    \cup {m_RemoteNeuronGroups[n] : n \in DOMAIN m_RemoteNeuronGroups}

SynapseGroupRecords ==
    {m_LocalSynapseGroups[n] : n \in DOMAIN m_LocalSynapseGroups}
    \cup {m_RemoteSynapseGroups[n] : n \in DOMAIN m_RemoteSynapseGroups}

\* C24: after finalize, for every local neuron group and each of its
\* outgoing synapse groups whose weight update model has non-empty
\* spike-event code, the synapse group and the neuron group are marked as
\* requiring spike events and the group's substituted threshold condition
\* is among the conditions of the neuron group; no synapse group with empty
\* event code and no neuron group without such an outgoing group is marked.
C24_SpikeEventRequirementPropagated ==
    /\ final =>
          \A n \in DOMAIN m_LocalNeuronGroups :
              \A ref \in EventOutSynOf(m_LocalNeuronGroups[n]) :
                  /\ Deref(AllSynapseGroups, ref).spikeEventRequired
                  /\ m_LocalNeuronGroups[n].spikeEventRequired
                  /\ \E c \in m_LocalNeuronGroups[n].spkEventCondition :
                         c[1] = substitutedCondition(Deref(AllSynapseGroups, ref), ref.name)
    /\ \A sg \in SynapseGroupRecords : sg.spikeEventRequired => sg.wu \in EventWUModels
    /\ \A ng \in NeuronGroupRecords : ng.spikeEventRequired => EventOutSynOf(ng) # {}

\* neuron group 1 has an outgoing group with event code, which is marked as
\* the neuron group is, and one without, which is not
C24_Witness ==
    /\ final
    /\ 1 \in DOMAIN m_LocalNeuronGroups
    /\ m_LocalNeuronGroups[1].spikeEventRequired
    /\ \E a, b \in OutSynOf(m_LocalNeuronGroups[1]) :
           /\ Deref(AllSynapseGroups, a).spikeEventRequired
           /\ Deref(AllSynapseGroups, b).wu = "static"
           /\ ~Deref(AllSynapseGroups, b).spikeEventRequired

\* the distinct event threshold conditions, after substitution, of the
\* outgoing synapse groups of a neuron group
DistinctConditionsOf(ng) ==
    {substitutedCondition(Deref(AllSynapseGroups, ref), ref.name) : ref \in EventOutSynOf(ng)}

C25_WitnessIdentical ==
    /\ final
    /\ 1 \in DOMAIN m_LocalNeuronGroups
    /\ Cardinality(EventOutSynOf(m_LocalNeuronGroups[1])) = 2
    /\ Cardinality(DistinctConditionsOf(m_LocalNeuronGroups[1])) = 1
    /\ \A ref \in EventOutSynOf(m_LocalNeuronGroups[1]) :
           ~Deref(AllSynapseGroups, ref).eventThresholdReTestRequired

\* the names finalize merged into the map of a kernel, in the order of their
\* first merge
RECURSIVE MergedInto(_, _)
MergedInto(kernel, merged) ==
    IF merged = <<>> THEN <<>>
    ELSE IF Head(merged)[1] = kernel
    THEN <<Head(merged)[2]>> \o MergedInto(kernel, Tail(merged))
    ELSE MergedInto(kernel, Tail(merged))

SeqRange(q) == {q[i] : i \in 1..Len(q)}

NoRepeats(q) == \A i, j \in 1..Len(q) : i # j => q[i] # q[j]

\* C26: after finalize each per-kernel parameter list holds every extra
\* global parameter name at most once and lists the parameters in the order
\* in which finalize first merged them.
C26_ParametersInFirstMergeOrder ==
    final =>
        \A k \in Kernels :
            /\ NoRepeats(kernelParameterList(k))
            /\ kernelParameterList(k) = MergedInto(k, finalizeLog.merged)

\* C26 as amended: after finalize each per-kernel parameter list holds
\* every extra global parameter name that was merged into it exactly once,
\* and lists the parameters in the order of their names, whatever the order
\* of the merges was.
C26_ParametersInNameOrder ==
    final =>
        \A k \in Kernels :
            LET list == kernelParameterList(k)
            IN /\ NoRepeats(list)
               /\ NoRepeats(MergedInto(k, finalizeLog.merged))
               /\ SeqRange(list) = SeqRange(MergedInto(k, finalizeLog.merged))
               /\ \A i, j \in 1..Len(list) : i < j => list[i] < list[j]

\* two synapse groups declared the same two parameters, 2 before 1: each is
\* in the synapse kernel's list once, 1 before 2
C26_Witness ==
    /\ final
    /\ Cardinality({n \in DOMAIN m_LocalSynapseGroups :
                       m_LocalSynapseGroups[n].wu = "eventEGP"}) = 2
    /\ MergedInto("synapse", finalizeLog.merged) = <<2, 1>>
    /\ kernelParameterList("synapse") = <<1, 2>>

\* the place of a stage in the order in which the description of finalize
\* lists the stages
StageRank(stage) ==
    CASE stage = "requirements" -> 1
      [] stage = "derivedParams" -> 2
      [] stage = "parameters" -> 3
      [] stage = "varQueues" -> 4
      [] stage = "mergePSM" -> 5
      [] stage = "placement" -> 6
      [] stage = "grid" -> 7
      [] stage = "resetKernel" -> 8

\* the place of a step of finalize in the order of its loops: the loop over
\* the neuron groups and their outgoing groups, the loop over the neuron
\* groups, the loop over the synapse groups, the loops over the current
\* sources with the merge of the postsynaptic models between them, the grids,
\* the reset kernel
LoopRank(e) ==
    CASE e[1] = "requirements" \/ e[2] = "outSyn" -> 1
      [] e[1] \in {"derivedParams", "parameters"} /\ e[2] = "neuron" -> 2
      [] e[2] = "synapse" -> 3
      [] e[2] = "currentSource" \/ e[1] = "mergePSM" -> 4
      [] e[1] = "grid" -> 5
      [] e[1] = "resetKernel" -> 6

NoRangeAssigned ==
    /\ \A n \in DOMAIN m_LocalNeuronGroups :
           m_LocalNeuronGroups[n].paddedIDRange = <<0, 0>>
    /\ \A s \in DOMAIN m_LocalSynapseGroups :
           m_LocalSynapseGroups[s].paddedKernelIDRange = <<0, 0>>
    /\ m_SynapsePostLearnGroups = EmptyMap
    /\ m_SynapseDynamicsGroups = EmptyMap
    /\ resetKernel = "indeterminate"
    /\ \A i \in 1..Len(finalizeLog.stages) :
           finalizeLog.stages[i][1] \notin {"grid", "resetKernel"}

\* the steps finalize took on an entity
StepsOn(kind, name) ==
    {finalizeLog.stages[i][1] :
        i \in {j \in 1..Len(finalizeLog.stages) :
                  /\ finalizeLog.stages[j][2] = kind
                  /\ finalizeLog.stages[j][3] = name}}

\* C23: finalize runs its stages in the listed order (requirement
\* propagation, derived parameters, parameter lists, variable queues,
\* merging of postsynaptic models, placement validation, grids, reset
\* kernel), so that when the placement validation fails the derived
\* parameters and parameter lists of all entities, current sources included,
\* and the merging of the postsynaptic models of all neuron groups are done,
\* and no ID range or reset kernel has been assigned.
C23_StagesInListedOrder ==
    /\ \A i, j \in 1..Len(finalizeLog.stages) :
           i < j => StageRank(finalizeLog.stages[i][1]) <= StageRank(finalizeLog.stages[j][1])
    /\ PlacementFailed =>
           /\ \A n \in DOMAIN m_LocalNeuronGroups :
                  /\ Len(m_LocalNeuronGroups[n].derivedParams) = 1
                  /\ m_LocalNeuronGroups[n].inSyn # <<>> => m_LocalNeuronGroups[n].psmMerged
           /\ \A s \in DOMAIN m_LocalSynapseGroups :
                  /\ Len(m_LocalSynapseGroups[s].derivedParams) = 1
                  /\ "parameters" \in StepsOn("synapse", s)
           /\ \A c \in DOMAIN m_LocalCurrentSources :
                  /\ Len(m_LocalCurrentSources[c].derivedParams) >= 1
                  /\ "parameters" \in StepsOn("currentSource", c)
           /\ NoRangeAssigned

\* the first synapse group, in the order of the names, that fails the
\* placement validation
FirstMisplaced ==
    MinOf({s \in DOMAIN m_LocalSynapseGroups : varModeMismatch(m_LocalSynapseGroups[s])})

\* C23 as amended: finalize runs the requirement propagation over all local
\* neuron groups, then derived parameters and parameter lists of the neuron
\* groups, then for each local synapse group in turn its derived
\* parameters, variable queues, parameter lists and placement validation,
\* then the current sources and the merging of the postsynaptic models, then
\* the grids, then the reset kernel. When the placement validation fails on
\* a synapse group, the derived parameters and parameter lists of all local
\* neuron groups and of the synapse groups up to that one are done, those of
\* the later synapse groups and of all current sources and the merging of
\* the postsynaptic models are not, and no ID range or reset kernel has been
\* assigned.
C23_StagesInLoopOrder ==
    /\ \A i, j \in 1..Len(finalizeLog.stages) :
           i < j =>
               /\ LoopRank(finalizeLog.stages[i]) <= LoopRank(finalizeLog.stages[j])
               /\ /\ finalizeLog.stages[i][2] = "synapse"
                  /\ finalizeLog.stages[j][2] = "synapse"
                  => \/ finalizeLog.stages[i][3] < finalizeLog.stages[j][3]
                     \/ /\ finalizeLog.stages[i][3] = finalizeLog.stages[j][3]
                        /\ finalizeLog.stages[j][1] # "derivedParams"
                        /\ finalizeLog.stages[i][1] # "placement"
    /\ PlacementFailed =>
           /\ \A n \in DOMAIN m_LocalNeuronGroups :
                  /\ Len(m_LocalNeuronGroups[n].derivedParams) = 1
                  /\ "parameters" \in StepsOn("neuron", n)
                  /\ ~m_LocalNeuronGroups[n].psmMerged
           /\ \A s \in DOMAIN m_LocalSynapseGroups :
                  IF s <= FirstMisplaced
                  THEN /\ Len(m_LocalSynapseGroups[s].derivedParams) = 1
                       /\ {"parameters", "placement"} \subseteq StepsOn("synapse", s)
                  ELSE /\ m_LocalSynapseGroups[s].derivedParams = <<>>
                       /\ StepsOn("synapse", s) = {}
           /\ \A c \in DOMAIN m_LocalCurrentSources :
                  /\ m_LocalCurrentSources[c].derivedParams = <<>>
                  /\ StepsOn("currentSource", c) = {}
           /\ NoRangeAssigned

\* finalize failed on the first of two synapse groups: the first has its
\* derived parameters, the second is untouched, the target neuron group has
\* its incoming groups unmerged
C23_Witness ==
    /\ PlacementFailed
    /\ DOMAIN m_LocalSynapseGroups = {1, 2}
    /\ FirstMisplaced = 1
    /\ Len(m_LocalSynapseGroups[1].derivedParams) = 1
    /\ m_LocalSynapseGroups[2].derivedParams = <<>>
    /\ \E n \in DOMAIN m_LocalNeuronGroups :
           m_LocalNeuronGroups[n].inSyn # <<>> /\ ~m_LocalNeuronGroups[n].psmMerged

\* ------------------------------------------------------------------------
\* The order of the frontend's calls
\* ------------------------------------------------------------------------
CallsOf(call) == {i \in 1..Len(importLog) : importLog[i][1] = call}

AddCalls == CallsOf("addNeuronPopulation") \cup CallsOf("addSynapsePopulation")

\* C22: the frontend calls the builder in two passes: no addNeuronPopulation
\* call follows an addSynapsePopulation call; every setMaxConnections call
\* directly follows the addSynapsePopulation call of the same synapse
\* population, whose connectivity is sparse; finalize is called at most once,
\* as the last call, and exactly once in a run that reaches its end
C22_TwoPassesThenFinalize ==
    /\ \A i \in CallsOf("addNeuronPopulation"), j \in CallsOf("addSynapsePopulation") : i < j
    /\ \A j \in CallsOf("setMaxConnections") :
          /\ j > 1
          /\ importLog[j - 1][1] = "addSynapsePopulation"
          /\ importLog[j - 1][2] = importLog[j][2]
          /\ importLog[j][3].connectivity = "SPARSE"
          /\ SynapseGroupAt(findSynapseGroup(importLog[j][2])).matrixType.connectivity = "SPARSE"
    /\ Cardinality(CallsOf("finalize")) <= 1
    /\ \A f \in CallsOf("finalize") :
          /\ f = Len(importLog)
          /\ \A a \in AddCalls : a < f
    /\ importPc.phase = "done" => Cardinality(CallsOf("finalize")) = 1
    /\ importPc.phase \in {"start", "setDT", "setName", "neurons", "synapses", "maxConnections",
                           "finalize"}
          => CallsOf("finalize") = {}

\* a finished run that added a neuron population, a sparse synapse population
\* with its setMaxConnections and a synapse population that is not sparse
C22_Witness ==
    /\ importPc.phase = "done"
    /\ CallsOf("addNeuronPopulation") # {}
    /\ CallsOf("setMaxConnections") # {}
    /\ \E j \in CallsOf("addSynapsePopulation") : importLog[j][3].connectivity # "SPARSE"
    /\ CallsOf("finalize") = {Len(importLog)}

====
